---------------------------- MODULE Spec2Model ----------------------------
(***************************************************************************)
(* A model of the GPU worker of the voice-clone story streaming service:   *)
(* the SQS poller with its two-phase scheduler (worker/src/sqs_poller.py), *)
(* the main processing loop (worker/main.py), the idempotency manager      *)
(* (worker/src/utils/idempotency.py), the per-story pipeline's upload      *)
(* monitor (worker/src/audio_pipeline.py), the S3 uploader                 *)
(* (worker/src/s3_uploader.py) and the resume logic                        *)
(* (worker/src/utils/resume.py).                                           *)
(***************************************************************************)
EXTENDS Integers, Sequences, FiniteSets, TLC

(***************************************************************************)
(* Bounds of the model and constants of the program.                       *)
(***************************************************************************)
\* segment numbers 0..MaxSeg are looked at in the bucket listing
MaxSeg == 3
\* the worker process is replaced at most this many times
MaxRestarts == 1
\* the queue delivers at most this many duplicates of deleted messages
MaxRedeliveries == 1
\* at most this many units are fed to one pipeline
MaxFeed == 3
\* at most this many calls of _write_to_ffmpeg on one pipeline
MaxWrites == 4
\* at most this many upload tasks are queued for one story
MaxTasks == 3
\* at most this many synthesis times are recorded in the window
MaxWindow == 11
\* the clock of the health checks runs up to this many steps of 10 seconds
MaxClock == 5
\* at most this many items are staged with a watcher
MaxStaged == 3
\* sqs_poller.py:353, the Phase 2 buffer target in seconds
BufferTarget == 3
\* sqs_poller.py:281, TTFA samples needed before the limit is adapted
TtfaWindow == 10
\* sqs_poller.py:285 and :291, the low and high water marks in ms
TtfaLow == 800
TtfaHigh == 1200
\* audio_pipeline.py:57, one second of 24 kHz 16-bit mono audio in bytes
SegmentDurationBytes == 48000
\* the grace period of is_healthy, 30 s, in steps of 10 seconds
GracePeriod == 3

Stories == {"s1", "s2", "s3"}
NoStory == "none"

\* The queue holds every unit from the start; a unit the poller has not yet
\* received is to the worker a unit that has not yet been sent.
\* One sentence of a story as the producer enqueues it (lambda/app.py:561-571):
\* story_id, seq, text and params.is_final.
\* idempotency_key is the hash the producer takes of story_id, seq, text,
\* voice_id and params (lambda/app.py:479-482).
Unit(s, q, t, f) ==
  [story |-> s, seq |-> q, text |-> t, is_final |-> f,
   idempotency_key |-> << s, q, t >>]
\* Story s1 is in progress (two sentences so far, the last not yet sent), s2
\* is a one-sentence story, s3 has just begun.
Units == { Unit("s1", 0, "a", FALSE), Unit("s1", 1, "b", FALSE),
           Unit("s2", 0, "a", TRUE), Unit("s3", 0, "a", FALSE) }
NoUnit == Unit(NoStory, 0, "", FALSE)

GpuTypes == {"T4", "L4"}

\* synthesis_time of one render in whole seconds, and the TTFA it gives in ms
SynthTimes == {0, 1, 2}
TtfaOf(t) == IF t = 0 THEN 500 ELSE 1500

VARIABLES
  workload,                    \* the units the producer has enqueued
  sqs,                         \* messages in the queue (sent, not deleted)
  redeliveries,                \* duplicates delivered so far
  restarts,                    \* process replacements so far
  gpu_type,                    \* ProductionSQSWorker.gpu_type
  current_concurrent_limit,    \* ProductionSQSWorker.current_concurrent_limit
  active_stories,              \* story ids in insertion (added_time) order
  story_state,                 \* StoryState of every story in active_stories
  story_message_map,           \* story_id -> tracked messages
  processed_idempotency_keys,  \* ProductionSQSWorker.processed_idempotency_keys
  ttfa_values,                 \* ProductionSQSWorker.ttfa_values
  pc, cur,                     \* position of _process_story_tasks, its job
  processed_keys,              \* IdempotencyManager.processed_keys
  s3_locks,                    \* idempotency lock files in the bucket
  s3_segments,                 \* objects of the bucket: <<story, n>>, init.mp4 as n = -1
  pipelines,                   \* LunebiGPUWorker.active_pipelines
  ddb_last_seq,                \* stories table: last_seq_written
  active_workers,              \* SpotInterruptionHandler.active_workers
  synthesis_result,            \* what _synthesize_sentence returned for the job
  resume_info,                 \* what get_resume_point returned last
  s3_playlist,                 \* segment numbers the published playlist lists
  marked_ok,                   \* history: units mark_processed returned True for
  published,                   \* history: units whose segment reached the bucket
  rendered,                    \* history: units synthesized and fed successfully
  uploader,                    \* the BlueprintS3Uploader of the process
  poller,                      \* synthesis_times and the lease asked of SQS
  watcher                      \* the EBSStagingWatcher of story s1

vars == << watcher, workload, sqs, redeliveries, restarts, gpu_type, current_concurrent_limit, active_stories, story_state,
           story_message_map, processed_idempotency_keys, ttfa_values, pc, cur,
           processed_keys, s3_locks, s3_segments, pipelines, ddb_last_seq,
           active_workers, synthesis_result, resume_info, s3_playlist,
           marked_ok, published, rendered, uploader, poller >>

Max(a, b) == IF a >= b THEN a ELSE b
Min(a, b) == IF a <= b THEN a ELSE b
Range(f) == { f[i] : i \in DOMAIN f }

-----------------------------------------------------------------------------
(***************************************************************************)
(* SQS poller and scheduler                                                *)
(***************************************************************************)

\* _get_concurrency_limits: (min, max) by GPU class
ConcurrencyLimits(g) ==
  CASE g = "L4" -> <<2, 4>>
    [] g = "T4" -> <<1, 2>>
    [] g = "A10G" -> <<2, 3>>
    [] g = "V100" -> <<1, 2>>
    [] g = "A100" -> <<3, 5>>
    [] OTHER -> <<1, 2>>
min_concurrent == ConcurrencyLimits(gpu_type)[1]
max_concurrent == ConcurrencyLimits(gpu_type)[2]

\* StoryState as __init__ of the dataclass leaves it; ttfa_ms is not None
\* exactly when is_first_sentence_rendered (both are set by one branch).
NewStoryState ==
  [ buffer_seconds |-> 0, is_first_sentence_rendered |-> FALSE,
    is_complete |-> FALSE, active_render_count |-> 0 ]

\* the key the producer puts in the message: hash(story|seq|text|voice|params)
MessageKey(u) == u.idempotency_key

IsActive(s) == s \in Range(active_stories)

\* the tracked messages of s, in the order they were appended
Pending(s) == story_message_map[s]

\* _get_rendering_story_count
RenderingStoryCount(ss, act) ==
  Cardinality({ i \in DOMAIN act : ss[act[i]].active_render_count > 0 })

RECURSIVE SumSeq(_)
SumSeq(q) == IF q = <<>> THEN 0 ELSE Head(q) + SumSeq(Tail(q))

LastN(q, n) == SubSeq(q, Len(q) - n + 1, Len(q))

UpdateConcurrencyLimitUnclamped(limit, ttfa) ==
  IF poller.enable_adaptive_scaling /\ Len(ttfa) >= TtfaWindow
  THEN LET total == SumSeq(LastN(ttfa, TtfaWindow))
       IN IF total < TtfaLow * TtfaWindow THEN limit + 1
          ELSE IF total > TtfaHigh * TtfaWindow THEN limit - 1
          ELSE limit
  ELSE limit

\* _update_concurrency_limit: nothing when adaptive scaling is disabled;
\* avg < 800 is sum < 800 * 10, avg > 1200 is sum > 1200 * 10
UpdateConcurrencyLimit(limit, ttfa) ==
  IF poller.enable_adaptive_scaling /\ Len(ttfa) >= TtfaWindow
  THEN LET total == SumSeq(LastN(ttfa, TtfaWindow))
       IN IF total < TtfaLow * TtfaWindow THEN Min(max_concurrent, limit + 1)
          ELSE IF total > TtfaHigh * TtfaWindow THEN Max(min_concurrent, limit - 1)
          ELSE limit
  ELSE limit

\* _simulate_buffer_consumption: every story that is not complete loses the
\* time elapsed since its last_processed_time, floored at 0.  A complete
\* story is skipped by the "continue", so the cleanup below it never runs.
SimulateBufferConsumption(ss, elapsed) ==
  [ s \in Stories |->
      IF IsActive(s) /\ ~ss[s].is_complete
      THEN [ ss[s] EXCEPT !.buffer_seconds = Max(0, @ - elapsed[s]) ]
      ELSE ss[s] ]

\* the stories _simulate_buffer_consumption hands to _complete_story
\* (sqs_poller.py:312-313): the test is reached by stories that are not
\* complete only, and asks for a complete one (ss is the state after the
\* drain)
CleanedUpStories(ss) ==
  { s \in Range(active_stories) :
      /\ ~story_state[s].is_complete
      /\ ss[s].buffer_seconds <= 0 /\ ss[s].is_complete }

\* _complete_story of the scheduler on active_stories and story_message_map
CompleteStoryActive(act, gone) == SelectSeq(act, LAMBDA s : s \notin gone)
CompleteStoryMessages(map, gone) ==
  [ s \in Stories |-> IF s \in gone THEN <<>> ELSE map[s] ]

\* the Phase 1 candidates in added_time order (the sort is stable and the
\* dict is in insertion order)
Phase1Stories(ss) ==
  SelectSeq(active_stories,
            LAMBDA s : /\ ~ss[s].is_first_sentence_rendered
                       /\ ~ss[s].is_complete
                       /\ Pending(s) # <<>>)

\* the Phase 2 candidates, in insertion order
Phase2Stories(ss) ==
  SelectSeq(active_stories,
            LAMBDA s : /\ ss[s].is_first_sentence_rendered
                       /\ ~ss[s].is_complete
                       /\ ss[s].buffer_seconds < BufferTarget
                       /\ Pending(s) # <<>>)

LowestBufferFirstListed(ss, q) == q[1]

\* the first element of the stable sort by buffer_seconds
LowestBuffer(ss, q) ==
  LET i == CHOOSE i \in DOMAIN q :
             /\ \A j \in DOMAIN q : ss[q[i]].buffer_seconds <= ss[q[j]].buffer_seconds
             /\ \A j \in 1..(i - 1) : ss[q[j]].buffer_seconds > ss[q[i]].buffer_seconds
  IN q[i]

NoJob == [story |-> NoStory, unit |-> NoUnit, phase |-> 0]

\* the decision of get_next_story_to_process on the drained state
NextJob(ss, limit) ==
  LET p1 == Phase1Stories(ss)
      p2 == Phase2Stories(ss)
      ok == RenderingStoryCount(ss, active_stories) < limit
  IN IF p1 # <<>> /\ ok
     THEN [story |-> p1[1], unit |-> Pending(p1[1])[1], phase |-> 1]
     ELSE IF p2 # <<>> /\ ok
     THEN [story |-> LowestBuffer(ss, p2), unit |-> Pending(LowestBuffer(ss, p2))[1],
           phase |-> 2]
     ELSE NoJob

NoTtfa == -1

CompleteRenderStateKeepsCount(ss, s, synthesis_time, ttfa_ms) ==
  [ ss EXCEPT ![s] =
      [ @ EXCEPT !.buffer_seconds = Max(0, @ + (1 - Min(synthesis_time, 1))),
                 !.is_first_sentence_rendered =
                     @ \/ (ttfa_ms # NoTtfa /\ ~ss[s].is_first_sentence_rendered) ] ]

CompleteRenderStateNoMin(ss, s, synthesis_time, ttfa_ms) ==
  [ ss EXCEPT ![s] =
      [ @ EXCEPT !.active_render_count = Max(0, @ - 1),
                 !.buffer_seconds = @ + (1 - synthesis_time),
                 !.is_first_sentence_rendered =
                     @ \/ (ttfa_ms # NoTtfa /\ ~ss[s].is_first_sentence_rendered) ] ]

\* complete_render on the story state: one render less, the buffer gains
\* segment_duration - min(synthesis_time, segment_duration), and the story is
\* marked first-rendered only when a TTFA is reported for the first time
CompleteRenderState(ss, s, synthesis_time, ttfa_ms) ==
  [ ss EXCEPT ![s] =
      [ @ EXCEPT !.active_render_count = Max(0, @ - 1),
                 !.buffer_seconds = Max(0, @ + (1 - Min(synthesis_time, 1))),
                 !.is_first_sentence_rendered =
                     @ \/ (ttfa_ms # NoTtfa /\ ~ss[s].is_first_sentence_rendered) ] ]

\* complete_render on ttfa_values (at most 100 are kept)
CompleteRenderTtfa(ss, s, ttfa_ms) ==
  IF ttfa_ms # NoTtfa /\ ~ss[s].is_first_sentence_rendered
  THEN LET q == Append(ttfa_values, ttfa_ms)
       IN IF Len(q) > 100 THEN Tail(q) ELSE q
  ELSE ttfa_values

\* complete_render on the tracked messages: every message with the key goes
CompleteRenderMessages(s, u) ==
  [ story_message_map EXCEPT ![s] =
      SelectSeq(@, LAMBDA m : MessageKey(m) # MessageKey(u)) ]

\* mark_story_complete of the scheduler
MarkStoryComplete(ss, s) == [ ss EXCEPT ![s].is_complete = TRUE ]

-----------------------------------------------------------------------------
(***************************************************************************)
(* Idempotency manager                                                     *)
(***************************************************************************)

\* generate_idempotency_key: memory_key and s3_key are both built from
\* story_id, seq and hash(model|voice|text|speed|format); model, voice, speed
\* and format are the same for every unit here, so the hash stands for text
IdempotencyKey(u) == << u.story, u.seq, u.text >>

\* check_already_processed: the memory cache, then the lock file.  The
\* head_object calls of the two checks are taken to answer (found or 404).
CheckAlreadyProcessed(u) ==
  IdempotencyKey(u) \in processed_keys \/ IdempotencyKey(u) \in s3_locks

\* check_s3_segment_exists: stories/{story_id}/audio_{sequence:03d}.m4s
CheckS3SegmentExists(u) == << u.story, u.seq >> \in s3_segments

\* the two pre-synthesis checks of _synthesize_sentence
AlreadyDone(u) == CheckAlreadyProcessed(u) \/ CheckS3SegmentExists(u)

\* a mark_processed that keeps the memory cache only and writes no lock file
MarkProcessedMemoryOnly(u, put_ok) == s3_locks

\* mark_processed: the memory cache first, then the lock file; put_ok is
\* whether put_object succeeded
MarkProcessedLocks(u, put_ok) ==
  IF put_ok THEN s3_locks \cup {IdempotencyKey(u)} ELSE s3_locks

-----------------------------------------------------------------------------
(***************************************************************************)
(* Resume logic                                                            *)
(***************************************************************************)

\* Every worker process has a SpotInterruptionHandler of its own, whose
\* active_workers dict maps a story to the worker id that claimed it there;
\* the process modelled in full runs with INSTANCE_ID.
Workers == {"w1", "w2"}
NoWorker == "nobody"
INSTANCE_ID == "w1"
NoOwners == [s \in Stories |-> NoWorker]

\* acquire_story_ownership on one handler's dict: refused when the story has
\* an owner there that is not the caller
CanAcquire(owners, s, worker_id) ==
  owners[s] = NoWorker \/ owners[s] = worker_id
Acquired(owners, s, worker_id) ==
  IF CanAcquire(owners, s, worker_id) THEN [owners EXCEPT ![s] = worker_id]
  ELSE owners

\* release_story_ownership on one handler's dict
Released(owners, s, worker_id) ==
  IF owners[s] = worker_id THEN [owners EXCEPT ![s] = NoWorker] ELSE owners

SetMax(S) == CHOOSE x \in S : \A y \in S : y <= x
SetMin(S) == CHOOSE x \in S : \A y \in S : x <= y

\* a resume point that trusts the progress pointer without the listing
CalculateResumePointFromPointer(last_seq, s3_segs, ebs_segs) == last_seq

\* _calculate_resume_point: scan from last_seq down to 0 for a segment that
\* is in storage; failing that the lowest staged segment; failing that 0
CalculateResumePoint(last_seq, s3_segs, ebs_segs) ==
  IF last_seq = 0 THEN 0
  ELSE IF \E q \in 0..last_seq : q \in s3_segs
       THEN SetMax({ q \in 0..last_seq : q \in s3_segs }) + 1
       ELSE IF ebs_segs # {} THEN SetMin(ebs_segs)
       ELSE 0

\* _load_existing_s3_segments: the segment numbers listed under the story
LoadExistingS3Segments(s) == { q \in 0..MaxSeg : << s, q >> \in s3_segments }

NoResumeInfo == [story |-> NoStory, status |-> "none", resume_from |-> 0]

\* get_resume_point of this process: 'already_processing' when the ownership
\* is refused by its own handler, 'new' when the pointer is 0, else
\* 'resuming' from the calculated point.  No EBS watcher is ever
\* registered by the worker, so the staged set is empty.
GetResumePoint(s) ==
  IF ~CanAcquire(active_workers[INSTANCE_ID], s, INSTANCE_ID)
  THEN [story |-> s, status |-> "already_processing", resume_from |-> 0]
  ELSE IF ddb_last_seq[s] = 0
  THEN [story |-> s, status |-> "new", resume_from |-> 0]
  ELSE [story |-> s, status |-> "resuming",
        resume_from |-> CalculateResumePoint(ddb_last_seq[s],
                                             LoadExistingS3Segments(s), {})]

\* main.py:475-484: the resume point is looked up for seq = 1 only, and the
\* job is skipped when resuming and seq < resume_from
\* active_workers after get_resume_point of this process for a story
GetResumePointOwners(s) ==
  [active_workers EXCEPT ![INSTANCE_ID] = Acquired(@, s, INSTANCE_ID)]

ResumeSkips(job) ==
  /\ job.unit.seq = 1
  /\ GetResumePoint(job.story).status = "resuming"
  /\ job.unit.seq < GetResumePoint(job.story).resume_from

-----------------------------------------------------------------------------
(***************************************************************************)
(* The worker: initial state and actions                                   *)
(***************************************************************************)

\* A StoryFFmpegPipeline: exists (the object is in active_pipelines), fed (the
\* units whose audio went to ffmpeg, one segment each), uploaded
\* (last_uploaded of the monitor); running, state and queue (audio_queue) of
\* the object; starts (Popen calls), stdin_closed, closes (times stdin was
\* closed and the process waited for), endlist (end markers in the playlist
\* file); the places of the writer thread, of the upload monitor thread and
\* of the caller of shutdown(); stream: the length of
\* partial_segment_buffer, the sizes written to stdin by the latest call of
\* _write_to_ffmpeg or by the final flush, the result of that call, whether
\* the final flush has happened, and the number of calls; round: the call
\* of upload_new_segments the monitor thread is in (count files listed, the
\* index pos of the next one, the uploaded list).
NoPipeline ==
  [exists |-> FALSE, fed |-> <<>>, uploaded |-> 0,
   running |-> FALSE, state |-> "IDLE", queue |-> <<>>,
   starts |-> 0, stdin_closed |-> FALSE, closes |-> 0, endlist |-> 0,
   writer |-> "none", monitor |-> "none", caller |-> "none",
   stream |-> [partial_segment_buffer |-> 0, writes |-> <<>>, success |-> TRUE,
               flushed |-> FALSE, calls |-> 0],
   round |-> [active |-> FALSE, count |-> 0, pos |-> 0, uploaded |-> <<>>],
   health |-> [above |-> FALSE, since |-> 0, now |-> 0,
               queue_warn_time |-> -1, verdict |-> "none"]]

\* _start_pipeline, from __init__: running, state IDLE, _start_ffmpeg (the
\* one Popen of the class), then the writer and the monitor thread
StartPipeline(p) ==
  [ p EXCEPT !.exists = TRUE, !.running = TRUE, !.state = "IDLE",
             !.starts = @ + 1, !.writer = "top", !.monitor = "top" ]
NoResult == [status |-> "none", time |-> 0, ttfa_ms |-> NoTtfa]

\* the in-memory state of a freshly started worker process
\* EBSStagingWatcher.__init__: an empty upload queue; staged and uploaded
\* record the tasks in the order they were staged and went through
NoWatcher == [upload_queue |-> <<>>, staged |-> <<>>, uploaded |-> <<>>]

\* ProductionSQSWorker.__init__: no synthesis time recorded, adaptive scaling
\* enabled (the default of ENABLE_ADAPTIVE_CONCURRENCY); the first receive
\* asks for the lease of the default p95.  Times are in tenths of a second,
\* the lease in seconds.
NoPoller ==
  [synthesis_times |-> <<>>, p95_synth_time |-> 5, visibility_timeout |-> 30,
   enable_adaptive_scaling |-> TRUE]

\* BlueprintS3Uploader.__init__: per story the upload queue, the registered
\* upload worker, the worker threads started so far with their place in the
\* loop and the task they hold, the segment numbers recorded as uploaded,
\* and the number of tasks and of segment tasks queued so far
NoUploader ==
  [upload_queue |-> [s \in Stories |-> <<>>],
   upload_workers |-> {},
   threads |-> [s \in Stories |-> <<>>],
   segments_uploaded |-> [s \in Stories |-> {}],
   queued |-> [s \in Stories |-> 0],
   segments_queued |-> [s \in Stories |-> 0]]

FreshProcess ==
  /\ current_concurrent_limit = min_concurrent
  /\ active_stories = <<>>
  /\ story_state = [s \in Stories |-> NewStoryState]
  /\ story_message_map = [s \in Stories |-> <<>>]
  /\ processed_idempotency_keys = {}
  /\ ttfa_values = <<>>
  /\ pc = "idle"
  /\ cur = NoJob
  /\ processed_keys = {}
  /\ pipelines = [s \in Stories |-> NoPipeline]
  /\ active_workers = [w \in Workers |-> NoOwners]
  /\ synthesis_result = NoResult
  /\ resume_info = NoResumeInfo
  /\ uploader = NoUploader
  /\ watcher = NoWatcher
  /\ poller = NoPoller

\* a worker of GPU class g starts on a queue that holds the units w, with an
\* empty bucket and a stories table that records no progress
Boot(g, w) ==
  /\ gpu_type = g
  /\ FreshProcess
  /\ workload = w
  /\ sqs = w
  /\ redeliveries = 0
  /\ restarts = 0
  /\ s3_locks = {}
  /\ s3_segments = {}
  /\ s3_playlist = [s \in Stories |-> {}]
  /\ ddb_last_seq = [s \in Stories |-> 0]
  /\ marked_ok = {}
  /\ published = {}
  /\ rendered = {}

UnitsOf(S) == { u \in Units : u.story \in S }

\* two stories, one of them with two sentences, on a single-slot worker
Init == Boot("T4", UnitsOf({"s1", "s2"}))

\* the queue delivers a duplicate of a message that was deleted (at-least-once
\* delivery, or the producer repeating a request unchanged)
Redeliver(u) ==
  /\ u \in workload
  /\ u \notin sqs
  /\ redeliveries < MaxRedeliveries
  /\ sqs' = sqs \cup {u}
  /\ redeliveries' = redeliveries + 1
  /\ UNCHANGED << poller, uploader, watcher, workload, restarts, gpu_type, current_concurrent_limit,
                  active_stories, story_state, story_message_map,
                  processed_idempotency_keys, ttfa_values, pc, cur, processed_keys,
                  s3_locks, s3_segments, pipelines, ddb_last_seq, active_workers,
                  synthesis_result, resume_info, s3_playlist, marked_ok,
                  published, rendered >>

\* the result of _process_message: "rejected" (story_id, text, voice_id or
\* idempotency_key missing or empty; text is the one a unit can lack),
\* "processed" (key already recorded), "rejected" (a new story at the
\* concurrency limit) or "tracked"
ProcessMessageResult(u) ==
  IF u.text = "" THEN "rejected"
  ELSE IF MessageKey(u) \in processed_idempotency_keys THEN "processed"
  ELSE IF ~IsActive(u.story) /\ Len(active_stories) >= current_concurrent_limit
       THEN "rejected"
  ELSE "tracked"

\* one message received by _polling_loop: _process_message, then
\* delete_message when it returned True
PollMessage(u) ==
  /\ u \in sqs
  /\ LET r == ProcessMessageResult(u)
     IN /\ active_stories' =
             IF r = "tracked" /\ ~IsActive(u.story)
             THEN Append(active_stories, u.story) ELSE active_stories
        /\ story_state' =
             IF r = "tracked" /\ ~IsActive(u.story)
             THEN [story_state EXCEPT ![u.story] = NewStoryState] ELSE story_state
        /\ story_message_map' =
             IF r = "tracked"
             THEN [story_message_map EXCEPT ![u.story] = Append(@, u)]
             ELSE story_message_map
        /\ sqs' = IF r = "rejected" THEN sqs ELSE sqs \ {u}
  /\ UNCHANGED << poller, uploader, watcher, workload, redeliveries, restarts, gpu_type,
                  current_concurrent_limit, processed_idempotency_keys,
                  ttfa_values, pc, cur, processed_keys, s3_locks, s3_segments,
                  pipelines, ddb_last_seq, active_workers, synthesis_result,
                  resume_info, s3_playlist, marked_ok, published, rendered >>

\* get_next_story_to_process: drain the buffers by the time elapsed, adapt
\* the limit, pick a job
GetNextStory ==
  /\ pc = "idle"
  /\ \E elapsed \in [Stories -> {0, 1}] :
       LET ss == SimulateBufferConsumption(story_state, elapsed)
           limit == UpdateConcurrencyLimit(current_concurrent_limit, ttfa_values)
           job == NextJob(ss, limit)
       IN /\ story_state' = ss
          /\ current_concurrent_limit' = limit
          /\ cur' = job
          /\ pc' = IF job = NoJob THEN "idle" ELSE "picked"
          /\ active_stories' = CompleteStoryActive(active_stories, CleanedUpStories(ss))
          /\ story_message_map' =
               CompleteStoryMessages(story_message_map, CleanedUpStories(ss))
  /\ UNCHANGED << poller, uploader, watcher, workload, sqs, redeliveries, restarts, gpu_type,
                  processed_idempotency_keys, ttfa_values,
                  processed_keys, s3_locks, s3_segments, pipelines, ddb_last_seq,
                  active_workers, synthesis_result, resume_info, s3_playlist,
                  marked_ok, published, rendered >>

\* start_render
StartRender ==
  /\ pc = "picked"
  /\ story_state' =
       IF IsActive(cur.story)
       THEN [story_state EXCEPT ![cur.story].active_render_count = @ + 1]
       ELSE story_state
  /\ pc' = "rendering"
  /\ UNCHANGED << poller, uploader, watcher, workload, sqs, redeliveries, restarts, gpu_type,
                  current_concurrent_limit, active_stories, story_message_map,
                  processed_idempotency_keys, ttfa_values, cur, processed_keys,
                  s3_locks, s3_segments, pipelines, ddb_last_seq, active_workers,
                  synthesis_result, resume_info, s3_playlist, marked_ok,
                  published, rendered >>

\* main.py:475-491: the resume point is looked up, which takes the ownership;
\* a job below the resume point is completed without synthesis and the rest
\* of the iteration is skipped by "continue" (resume_info is a local of the
\* iteration and ends with it)
ResumeSkip ==
  /\ pc = "rendering"
  /\ ResumeSkips(cur)
  /\ resume_info' = NoResumeInfo
  /\ active_workers' = GetResumePointOwners(cur.story)
  /\ IF IsActive(cur.story)
     THEN /\ story_state' = CompleteRenderState(story_state, cur.story, 0, NoTtfa)
          /\ ttfa_values' = CompleteRenderTtfa(story_state, cur.story, NoTtfa)
          /\ processed_idempotency_keys' =
               processed_idempotency_keys \cup {MessageKey(cur.unit)}
          /\ story_message_map' = CompleteRenderMessages(cur.story, cur.unit)
     ELSE UNCHANGED << story_state, ttfa_values, processed_idempotency_keys,
                       story_message_map >>
  /\ pc' = "idle"
  /\ cur' = NoJob
  /\ UNCHANGED << poller, uploader, watcher, workload, sqs, redeliveries, restarts, gpu_type,
                  current_concurrent_limit, active_stories, processed_keys,
                  s3_locks, s3_segments, pipelines, ddb_last_seq, synthesis_result,
                  s3_playlist, marked_ok, published, rendered >>

\* how _synthesize_sentence ends when the unit is not skipped: the TTS call
\* raises, the pipeline cannot be created, feed_audio returns False (queue
\* full), or the audio is queued and the unit marked
SynthOutcomes == {"synth_error", "pipeline_failed", "feed_failed", "ok"}

\* _synthesize_sentence for the current job (main.py:493-503), preceded by
\* the resume lookup when seq = 1
SynthesizeSentence ==
  /\ pc = "rendering"
  /\ ~ResumeSkips(cur)
  /\ pc' = "synthesized"
  /\ resume_info' = IF cur.unit.seq = 1 THEN GetResumePoint(cur.story)
                     ELSE NoResumeInfo
  /\ active_workers' =
       IF cur.unit.seq = 1 THEN GetResumePointOwners(cur.story) ELSE active_workers
  /\ LET u == cur.unit
         s == cur.story
     IN IF AlreadyDone(u)
        THEN \* skipped: 'idempotent' (a lock file found is cached) or 'segment_exists'
             /\ processed_keys' =
                  IF CheckAlreadyProcessed(u)
                  THEN processed_keys \cup {IdempotencyKey(u)} ELSE processed_keys
             /\ synthesis_result' = [status |-> "skipped", time |-> 0, ttfa_ms |-> NoTtfa]
             /\ UNCHANGED << s3_locks, pipelines, marked_ok, rendered >>
        ELSE \E outcome \in SynthOutcomes, t \in SynthTimes, put_ok \in BOOLEAN :
             /\ outcome = "pipeline_failed" => ~pipelines[s].exists
             /\ pipelines' =
                  IF outcome \in {"feed_failed", "ok"}
                  THEN [pipelines EXCEPT ![s] =
                          [ (IF @.exists THEN @ ELSE StartPipeline(@))
                              EXCEPT !.fed = IF outcome = "ok" THEN Append(@, u) ELSE @ ]]
                  ELSE pipelines
             /\ processed_keys' =
                  IF outcome = "ok" THEN processed_keys \cup {IdempotencyKey(u)}
                  ELSE processed_keys
             /\ s3_locks' =
                  IF outcome = "ok" THEN MarkProcessedLocks(u, put_ok) ELSE s3_locks
             /\ marked_ok' =
                  IF outcome = "ok" /\ put_ok THEN marked_ok \cup {u} ELSE marked_ok
             /\ rendered' = IF outcome = "ok" THEN rendered \cup {u} ELSE rendered
             /\ synthesis_result' =
                  IF outcome = "ok"
                  THEN [status |-> "ok", time |-> t,
                        ttfa_ms |-> IF u.seq = 1 THEN TtfaOf(t) ELSE NoTtfa]
                  ELSE [status |-> "failed", time |-> t, ttfa_ms |-> NoTtfa]
  /\ UNCHANGED << poller, uploader, watcher, workload, sqs, redeliveries, restarts, gpu_type,
                  current_concurrent_limit, active_stories, story_state,
                  story_message_map, processed_idempotency_keys, ttfa_values, cur,
                  s3_segments, ddb_last_seq, s3_playlist, published >>

\* the segment numbers the playlist file in the output directory of the
\* story lists: ffmpeg appends every segment it has written
LocalPlaylist(s) == 0 .. (Len(pipelines[s].fed) - 1)

\* upload_final_files: init.mp4, when ffmpeg has written it, is put first and
\* the playlist follows; "failed" when the first put raised, "init_only"
\* when the playlist upload failed
FinalOutcomes == {"failed", "init_only", "ok"}

\* the bucket after the init.mp4 part of upload_final_files; the object
\* stories/{story}/init.mp4 is written << story, -1 >>
UploadFinalInit(s, outcome) ==
  IF pipelines[s].exists /\ Len(pipelines[s].fed) > 0 /\ outcome # "failed"
  THEN s3_segments \cup { << s, -1 >> }
  ELSE s3_segments

\* main.py:505-518: complete_render whatever the result; on the final unit
\* _complete_story, whose pipeline.shutdown() ends in _finalize_pipeline and
\* upload_final_files (init.mp4 and the playlist, final_ok when the upload
\* went through); then _cleanup_completed_pipelines, which removes nothing
\* as long as every ffmpeg process is alive
CompleteRender ==
  /\ pc = "synthesized"
  /\ LET s == cur.story
         u == cur.unit
         r == synthesis_result
         ss1 == IF IsActive(s)
                THEN CompleteRenderState(story_state, s, r.time, r.ttfa_ms)
                ELSE story_state
     IN /\ story_state' = IF u.is_final /\ IsActive(s) THEN MarkStoryComplete(ss1, s)
                          ELSE ss1
        /\ IF IsActive(s)
           THEN /\ ttfa_values' = CompleteRenderTtfa(story_state, s, r.ttfa_ms)
                /\ processed_idempotency_keys' =
                     processed_idempotency_keys \cup {MessageKey(u)}
                /\ story_message_map' = CompleteRenderMessages(s, u)
           ELSE UNCHANGED << ttfa_values, processed_idempotency_keys,
                             story_message_map >>
        /\ active_workers' =
             IF u.is_final
             THEN [active_workers EXCEPT ![INSTANCE_ID] = Released(@, s, INSTANCE_ID)]
             ELSE active_workers
        /\ pipelines' = IF u.is_final THEN [pipelines EXCEPT ![s] = NoPipeline]
                        ELSE pipelines
        /\ \E outcome \in FinalOutcomes :
             /\ s3_segments' = IF u.is_final THEN UploadFinalInit(s, outcome)
                                ELSE s3_segments
             /\ s3_playlist' =
                  IF u.is_final /\ pipelines[s].exists /\ outcome = "ok"
                  THEN [s3_playlist EXCEPT ![s] = LocalPlaylist(s)]
                  ELSE s3_playlist
  /\ pc' = "idle"
  /\ cur' = NoJob
  /\ synthesis_result' = NoResult
  /\ resume_info' = NoResumeInfo
  /\ UNCHANGED << poller, uploader, watcher, workload, sqs, redeliveries, restarts, gpu_type,
                  current_concurrent_limit, active_stories, processed_keys,
                  s3_locks, ddb_last_seq, marked_ok, published,
                  rendered >>

\* upload_new_segments: the files from from_segment on are taken in order up
\* to the first whose upload fails for good (n, or all of them); a file
\* under 1024 bytes (small) is passed over by "continue".  The result is the
\* set of segment numbers that reached the bucket.
UploadNewSegments(from_segment, n, small) ==
  { i \in from_segment .. (n - 1) : i \notin small }

\* one round of _upload_monitor_thread with new segment files:
\* upload_new_segments, which reports success unless an upload failed; on
\* success the playlist follows (upload_playlist), and last_uploaded
\* advances when that succeeded too.  Segment n of the directory holds the
\* (n+1)-th unit fed.
UploadMonitor(s) ==
  /\ pipelines[s].exists
  /\ pipelines[s].monitor \in {"top", "body"}
  /\ Len(pipelines[s].fed) > pipelines[s].uploaded
  /\ \E n \in pipelines[s].uploaded .. Len(pipelines[s].fed), playlist_ok \in BOOLEAN,
        small \in SUBSET (pipelines[s].uploaded .. (Len(pipelines[s].fed) - 1)) :
       /\ s3_segments' = s3_segments \cup
            { << s, i >> : i \in UploadNewSegments(pipelines[s].uploaded, n, small) }
       /\ published' = published \cup
            { pipelines[s].fed[i + 1] :
                i \in UploadNewSegments(pipelines[s].uploaded, n, small) }
       /\ s3_playlist' =
            IF n = Len(pipelines[s].fed) /\ playlist_ok
            THEN [s3_playlist EXCEPT ![s] = LocalPlaylist(s)] ELSE s3_playlist
       /\ pipelines' =
            IF n = Len(pipelines[s].fed) /\ playlist_ok
            THEN [pipelines EXCEPT ![s].uploaded = n] ELSE pipelines
  /\ UNCHANGED << poller, uploader, watcher, workload, sqs, redeliveries, restarts, gpu_type,
                  current_concurrent_limit, active_stories, story_state,
                  story_message_map, processed_idempotency_keys, ttfa_values, pc,
                  cur, processed_keys, s3_locks, ddb_last_seq, active_workers,
                  synthesis_result, resume_info, marked_ok, rendered >>

\* the request side records the progress of a story in the stories table
\* (update_story_progress: SET last_seq_written = :seq)
ProgressWritten(u) ==
  /\ u \in workload
  /\ ddb_last_seq[u.story] # u.seq
  /\ ddb_last_seq' = [ddb_last_seq EXCEPT ![u.story] = u.seq]
  /\ UNCHANGED << poller, uploader, watcher, workload, sqs, redeliveries, restarts, gpu_type,
                  current_concurrent_limit, active_stories, story_state,
                  story_message_map, processed_idempotency_keys, ttfa_values, pc,
                  cur, processed_keys, s3_locks, s3_segments, pipelines,
                  active_workers, synthesis_result, resume_info, s3_playlist,
                  marked_ok, published, rendered >>

\* the worker process is replaced (spot interruption, crash): everything in
\* memory is gone, the queue, the bucket and the table stay
Restart ==
  /\ restarts < MaxRestarts
  /\ restarts' = restarts + 1
  /\ current_concurrent_limit' = min_concurrent
  /\ active_stories' = <<>>
  /\ story_state' = [s \in Stories |-> NewStoryState]
  /\ story_message_map' = [s \in Stories |-> <<>>]
  /\ processed_idempotency_keys' = {}
  /\ ttfa_values' = <<>>
  /\ pc' = "idle"
  /\ cur' = NoJob
  /\ processed_keys' = {}
  /\ pipelines' = [s \in Stories |-> NoPipeline]
  /\ active_workers' = [active_workers EXCEPT ![INSTANCE_ID] = NoOwners]
  /\ synthesis_result' = NoResult
  /\ resume_info' = NoResumeInfo
  /\ uploader' = NoUploader
  /\ poller' = NoPoller
  /\ watcher' = NoWatcher
  /\ UNCHANGED << workload, sqs, redeliveries, gpu_type, s3_locks, s3_segments,
                  ddb_last_seq, s3_playlist, marked_ok, published, rendered >>

Next ==
  \/ \E u \in Units : Redeliver(u)
  \/ \E u \in Units : PollMessage(u)
  \/ GetNextStory
  \/ StartRender
  \/ ResumeSkip
  \/ SynthesizeSentence
  \/ CompleteRender
  \/ \E s \in Stories : UploadMonitor(s)
  \/ \E u \in Units : ProgressWritten(u)
  \/ Restart

\* a T4 worker on two stories, with redelivery and replacement of the process
Spec == Init /\ [][Next]_vars

\* one story on a worker that is replaced and receives duplicates
InitStory == Boot("L4", UnitsOf({"s1"}))
SpecStory == InitStory /\ [][Next]_vars

\* the orders in which the elements of a set can arrive
Orders(S) ==
  { q \in [1 .. Cardinality(S) -> S] : \A i, j \in DOMAIN q : i # j => q[i] # q[j] }

\* The state _process_message leaves when a burst of messages of every
\* story has been received before the first job is asked for: as many
\* stories as the limit admits are tracked, with their messages in arrival
\* order; the messages of the others were rejected and are still in the
\* queue.  BurstProcess is FreshProcess but for the tracked stories.
BurstProcess ==
  /\ current_concurrent_limit = min_concurrent
  /\ story_state = [s \in Stories |-> NewStoryState]
  /\ processed_idempotency_keys = {}
  /\ ttfa_values = <<>>
  /\ pc = "idle"
  /\ cur = NoJob
  /\ processed_keys = {}
  /\ pipelines = [s \in Stories |-> NoPipeline]
  /\ active_workers = [w \in Workers |-> NoOwners]
  /\ synthesis_result = NoResult
  /\ resume_info = NoResumeInfo
  /\ uploader = NoUploader
  /\ watcher = NoWatcher
  /\ poller = NoPoller

\* three stories offered to one worker process that then runs undisturbed
InitSched ==
  \E g \in GpuTypes :
    \E A \in { S \in SUBSET Stories : Cardinality(S) = ConcurrencyLimits(g)[1] } :
      /\ gpu_type = g
      /\ BurstProcess
      /\ active_stories \in Orders(A)
      /\ story_message_map \in
           { m \in [Stories -> UNION { Orders(UnitsOf({s})) : s \in Stories } \cup {<<>>}] :
               \A s \in Stories :
                 m[s] \in (IF s \in A THEN Orders(UnitsOf({s})) ELSE {<<>>}) }
      /\ workload = Units
      /\ sqs = { u \in Units : u.story \notin A }
      /\ redeliveries = 0
      /\ restarts = 0
      /\ s3_locks = {}
      /\ s3_segments = {}
      /\ s3_playlist = [s \in Stories |-> {}]
      /\ ddb_last_seq = [s \in Stories |-> 0]
      /\ marked_ok = {}
      /\ published = {}
      /\ rendered = {}

NextSched ==
  \/ GetNextStory
  \/ StartRender
  \/ SynthesizeSentence
  \/ CompleteRender
  \/ \E s \in Stories : UploadMonitor(s)
  \/ \E u \in Units : ProgressWritten(u)
SpecSched == InitSched /\ [][NextSched]_vars

\* get_resume_point called for a story (resume.py:384-430): the ownership is
\* taken, the result is kept in resume_info
CallGetResumePoint(s) ==
  /\ resume_info' = GetResumePoint(s)
  /\ active_workers' = GetResumePointOwners(s)
  /\ UNCHANGED << poller, uploader, watcher, workload, sqs, redeliveries, restarts, gpu_type,
                  current_concurrent_limit, active_stories, story_state,
                  story_message_map, processed_idempotency_keys, ttfa_values, pc,
                  cur, processed_keys, s3_locks, s3_segments, pipelines,
                  ddb_last_seq, synthesis_result, s3_playlist, marked_ok,
                  published, rendered >>

\* a worker starts on a table and a bucket that an earlier worker left
\* behind: any pointer, any set of segments of story "s1"
InitResume ==
  /\ gpu_type \in GpuTypes
  /\ FreshProcess
  /\ workload = {}
  /\ sqs = {}
  /\ redeliveries = 0
  /\ restarts = 0
  /\ s3_locks = {}
  /\ s3_segments \in SUBSET ({"s1"} \X (0 .. MaxSeg))
  /\ s3_playlist = [s \in Stories |-> {}]
  /\ ddb_last_seq \in { f \in [Stories -> 0 .. MaxSeg] : \A s \in Stories \ {"s1"} : f[s] = 0 }
  /\ marked_ok = {}
  /\ published = {}
  /\ rendered = {}

NextResume == \E s \in Stories : CallGetResumePoint(s)

SpecResume == InitResume /\ [][NextResume]_vars

\* get_resume_point in the process of another worker, on the handler of
\* that process and with its worker id (resume.py:386-390, 450-460)
PeerGetResumePoint(w, s) ==
  /\ w # INSTANCE_ID
  /\ active_workers' = [active_workers EXCEPT ![w] = Acquired(@, s, w)]
  /\ UNCHANGED << poller, uploader, watcher, workload, sqs, redeliveries, restarts, gpu_type,
                  current_concurrent_limit, active_stories, story_state,
                  story_message_map, processed_idempotency_keys, ttfa_values, pc,
                  cur, processed_keys, s3_locks, s3_segments, pipelines,
                  ddb_last_seq, synthesis_result, resume_info, s3_playlist,
                  marked_ok, published, rendered >>

\* mark_story_complete in the process of another worker (resume.py:485-501)
PeerMarkStoryComplete(w, s) ==
  /\ w # INSTANCE_ID
  /\ active_workers' = [active_workers EXCEPT ![w] = Released(@, s, w)]
  /\ UNCHANGED << poller, uploader, watcher, workload, sqs, redeliveries, restarts, gpu_type,
                  current_concurrent_limit, active_stories, story_state,
                  story_message_map, processed_idempotency_keys, ttfa_values, pc,
                  cur, processed_keys, s3_locks, s3_segments, pipelines,
                  ddb_last_seq, synthesis_result, resume_info, s3_playlist,
                  marked_ok, published, rendered >>

\* story s1 on this worker while a second worker process works on the same
\* stories (a requeued story reaches both)
InitPeers == Boot("T4", UnitsOf({"s1"}))
NextPeers ==
  \/ \E u \in Units : PollMessage(u)
  \/ GetNextStory
  \/ StartRender
  \/ SynthesizeSentence
  \/ CompleteRender
  \/ \E s \in Stories : UploadMonitor(s)
  \/ \E w \in Workers, s \in Stories : PeerGetResumePoint(w, s)
  \/ \E w \in Workers, s \in Stories : PeerMarkStoryComplete(w, s)

SpecPeers == InitPeers /\ [][NextPeers]_vars

\* the stories with an EBS staging watcher: get_or_create_watcher is reached
\* through stage_and_upload and stage_playlist only, which the worker never
\* calls
EbsWatchers == {}

\* _save_checkpoints_before_termination on the progress table: a story in
\* active_workers is written only when it has a watcher, and the write is
\* update_story_progress(story, last_seq, worker_id=..., force_checkpoint=True),
\* which ends in a TypeError of ddb.update_story_progress (it takes neither
\* keyword) that is caught and answered False: the table keeps its value
SaveCheckpointsBeforeTermination ==
  [ s \in Stories |->
      IF active_workers[INSTANCE_ID][s] # NoWorker /\ s \in EbsWatchers
      THEN ddb_last_seq[s]
      ELSE ddb_last_seq[s] ]

\* the spot monitor finds the termination notice (check_spot_interruption
\* saves the checkpoints and returns True), the main loop ends between two
\* jobs and shutdown() finalizes every pipeline (upload_final_files, which
\* may fail) before the process ends; a new process starts afterwards
SpotInterruption ==
  /\ pc = "idle"
  /\ restarts < MaxRestarts
  /\ restarts' = restarts + 1
  /\ ddb_last_seq' = SaveCheckpointsBeforeTermination
  /\ \E outcome \in [Stories -> FinalOutcomes] :
       /\ s3_segments' = UNION { UploadFinalInit(s, outcome[s]) : s \in Stories }
       /\ s3_playlist' =
            [ s \in Stories |->
                IF pipelines[s].exists /\ outcome[s] = "ok" THEN LocalPlaylist(s)
                ELSE s3_playlist[s] ]
  /\ current_concurrent_limit' = min_concurrent
  /\ active_stories' = <<>>
  /\ story_state' = [s \in Stories |-> NewStoryState]
  /\ story_message_map' = [s \in Stories |-> <<>>]
  /\ processed_idempotency_keys' = {}
  /\ ttfa_values' = <<>>
  /\ pc' = "idle"
  /\ cur' = NoJob
  /\ processed_keys' = {}
  /\ pipelines' = [s \in Stories |-> NoPipeline]
  /\ active_workers' = [active_workers EXCEPT ![INSTANCE_ID] = NoOwners]
  /\ synthesis_result' = NoResult
  /\ resume_info' = NoResumeInfo
  /\ uploader' = NoUploader
  /\ poller' = NoPoller
  /\ watcher' = NoWatcher
  /\ UNCHANGED << workload, sqs, redeliveries, gpu_type, s3_locks,
                  marked_ok, published, rendered >>

\* story s1 on a spot instance that receives a termination notice
InitSpot == Boot("L4", UnitsOf({"s1"}))
NextSpot ==
  \/ \E u \in Units : PollMessage(u)
  \/ GetNextStory
  \/ StartRender
  \/ SynthesizeSentence
  \/ CompleteRender
  \/ \E s \in Stories : UploadMonitor(s)
  \/ \E u \in Units : ProgressWritten(u)
  \/ SpotInterruption

SpecSpot == InitSpot /\ [][NextSpot]_vars

\* a one-sentence story on a worker whose polling thread and main loop keep
\* running: each of their steps is taken when it stays possible
InitLive == \E g \in GpuTypes : Boot(g, UnitsOf({"s2", "s3"}))
NextLive ==
  \/ \E u \in Units : PollMessage(u)
  \/ GetNextStory
  \/ StartRender
  \/ SynthesizeSentence
  \/ CompleteRender
  \/ \E s \in Stories : UploadMonitor(s)

SpecLive ==
  /\ InitLive
  /\ [][NextLive]_vars
  /\ WF_vars(\E u \in Units : PollMessage(u))
  /\ WF_vars(GetNextStory)
  /\ WF_vars(StartRender)
  /\ WF_vars(SynthesizeSentence)
  /\ WF_vars(CompleteRender)
  /\ \A s \in Stories : WF_vars(UploadMonitor(s))

-----------------------------------------------------------------------------
(***************************************************************************)
(* The threads of one StoryFFmpegPipeline (worker/src/audio_pipeline.py):  *)
(* the caller that feeds units and shuts the pipeline down after the final *)
(* one, the audio writer thread and the upload monitor thread.             *)
(***************************************************************************)

PipelineStories == {"s1"}

\* the chunk shutdown() puts on the queue: no audio, sequence -1, is_final
FinalChunk(s) == Unit(s, -1, "", TRUE)

FeedChunkRestarting(p, chunk) ==
  [ p EXCEPT !.queue = Append(@, chunk), !.starts = @ + 1 ]

\* feed_audio: the chunk is put on audio_queue, nothing else
FeedChunk(p, chunk) == [ p EXCEPT !.queue = Append(@, chunk) ]

\* main.py:392-412 for a unit of story s whose synthesis went through: the
\* pipeline is taken from active_pipelines or created, and the unit is fed;
\* the unit that ends the story leads to _complete_story and shutdown()
FeedAudio(s, is_final) ==
  /\ pipelines[s].caller = "none"
  /\ Len(pipelines[s].fed) + Len(pipelines[s].queue) < MaxFeed
  /\ LET p == IF pipelines[s].exists THEN pipelines[s]
              ELSE StartPipeline(pipelines[s])
         chunk == Unit(s, Len(p.fed) + Len(p.queue), "a", is_final)
     IN pipelines' =
          [pipelines EXCEPT ![s] =
             [ FeedChunk(p, chunk) EXCEPT
                 !.caller = IF is_final THEN "shutdown" ELSE "none" ]]
  /\ UNCHANGED << poller, uploader, watcher, workload, sqs, redeliveries, restarts, gpu_type,
                  current_concurrent_limit, active_stories, story_state,
                  story_message_map, processed_idempotency_keys, ttfa_values, pc,
                  cur, processed_keys, s3_locks, s3_segments, ddb_last_seq,
                  active_workers, synthesis_result, resume_info, s3_playlist,
                  marked_ok, published, rendered >>

\* the lock of the pipeline is held by the monitor thread from its
\* completion test to the end of _finalize_pipeline
LockHeld(p) == p.monitor \in {"finalizing", "marked"}

\* _audio_writer_thread, "while self.running": the loop is left when
\* running is false, else the thread waits in audio_queue.get
WriterLoop(s) ==
  /\ pipelines[s].writer = "top"
  /\ pipelines' = [pipelines EXCEPT ![s].writer =
                     IF pipelines[s].running THEN "get" ELSE "done"]
  /\ UNCHANGED << poller, uploader, watcher, workload, sqs, redeliveries, restarts, gpu_type,
                  current_concurrent_limit, active_stories, story_state,
                  story_message_map, processed_idempotency_keys, ttfa_values, pc,
                  cur, processed_keys, s3_locks, s3_segments, ddb_last_seq,
                  active_workers, synthesis_result, resume_info, s3_playlist,
                  marked_ok, published, rendered >>

\* what the writer thread does with the chunk it took: state ERROR ends the
\* thread; else state ACTIVE, the audio is written to the stdin of ffmpeg
\* (a write to a closed stdin raises: state ERROR, thread ends), and a
\* final chunk sets state COMPLETE and ends the thread
WriteChunk(p, chunk) ==
  IF p.state = "ERROR" THEN [ p EXCEPT !.writer = "done" ]
  ELSE IF p.stdin_closed /\ chunk.seq # -1
       THEN [ p EXCEPT !.state = "ERROR", !.writer = "done" ]
       ELSE [ p EXCEPT !.fed = IF chunk.seq # -1 THEN Append(@, chunk) ELSE @,
                       !.state = IF chunk.is_final THEN "COMPLETE" ELSE "ACTIVE",
                       !.writer = IF chunk.is_final THEN "done" ELSE "top" ]

\* audio_queue.get(timeout=0.1) returns a chunk, or raises queue.Empty and
\* the loop goes round
WriterGet(s) ==
  /\ pipelines[s].writer = "get"
  /\ pipelines[s].queue # <<>> => ~LockHeld(pipelines[s])
  /\ pipelines' =
       [pipelines EXCEPT ![s] =
          IF @.queue = <<>> THEN [ @ EXCEPT !.writer = "top" ]
          ELSE WriteChunk([ @ EXCEPT !.queue = Tail(@) ], Head(@.queue))]
  /\ UNCHANGED << poller, uploader, watcher, workload, sqs, redeliveries, restarts, gpu_type,
                  current_concurrent_limit, active_stories, story_state,
                  story_message_map, processed_idempotency_keys, ttfa_values, pc,
                  cur, processed_keys, s3_locks, s3_segments, ddb_last_seq,
                  active_workers, synthesis_result, resume_info, s3_playlist,
                  marked_ok, published, rendered >>

\* _upload_monitor_thread, "while self.running": the loop is left when
\* running is false, else the thread sleeps and looks for new segments
\* (UploadMonitor)
MonitorLoop(s) ==
  /\ pipelines[s].monitor = "top"
  /\ pipelines' = [pipelines EXCEPT ![s].monitor =
                     IF pipelines[s].running THEN "body" ELSE "done"]
  /\ UNCHANGED << poller, uploader, watcher, workload, sqs, redeliveries, restarts, gpu_type,
                  current_concurrent_limit, active_stories, story_state,
                  story_message_map, processed_idempotency_keys, ttfa_values, pc,
                  cur, processed_keys, s3_locks, s3_segments, ddb_last_seq,
                  active_workers, synthesis_result, resume_info, s3_playlist,
                  marked_ok, published, rendered >>

\* the end of the monitor's round: with state COMPLETE and an empty queue
\* the thread goes into _finalize_pipeline, else round the loop
MonitorCheckComplete(s) ==
  /\ pipelines[s].monitor = "body"
  /\ pipelines' = [pipelines EXCEPT ![s].monitor =
                     IF pipelines[s].state = "COMPLETE" /\ pipelines[s].queue = <<>>
                     THEN "finalizing" ELSE "top"]
  /\ UNCHANGED << poller, uploader, watcher, workload, sqs, redeliveries, restarts, gpu_type,
                  current_concurrent_limit, active_stories, story_state,
                  story_message_map, processed_idempotency_keys, ttfa_values, pc,
                  cur, processed_keys, s3_locks, s3_segments, ddb_last_seq,
                  active_workers, synthesis_result, resume_info, s3_playlist,
                  marked_ok, published, rendered >>

PipelineThreads == {"monitor", "caller"}

\* the first statement of _finalize_pipeline, run by thread t: the end
\* marker is appended to playlist.m3u8 when the file exists (a segment has
\* been written)
FinalizeEndlist(s, t) ==
  /\ pipelines[s][t] = "finalizing"
  /\ pipelines' =
       [pipelines EXCEPT ![s] =
          [ @ EXCEPT ![t] = "marked",
                     !.endlist = IF Len(pipelines[s].fed) > 0 THEN @ + 1 ELSE @ ]]
  /\ UNCHANGED << poller, uploader, watcher, workload, sqs, redeliveries, restarts, gpu_type,
                  current_concurrent_limit, active_stories, story_state,
                  story_message_map, processed_idempotency_keys, ttfa_values, pc,
                  cur, processed_keys, s3_locks, s3_segments, ddb_last_seq,
                  active_workers, synthesis_result, resume_info, s3_playlist,
                  marked_ok, published, rendered >>

\* the rest of _finalize_pipeline, run by thread t: the stdin of ffmpeg is
\* closed, the process is waited for or terminated, and upload_final_files
\* sends the playlist (final_ok when the upload went through)
FinalizeClose(s, t) ==
  /\ pipelines[s][t] = "marked"
  /\ pipelines' =
       [pipelines EXCEPT ![s] =
          [ @ EXCEPT ![t] = "done", !.stdin_closed = TRUE, !.closes = @ + 1 ]]
  /\ \E outcome \in FinalOutcomes :
       /\ s3_segments' = UploadFinalInit(s, outcome)
       /\ s3_playlist' = IF outcome = "ok"
                         THEN [s3_playlist EXCEPT ![s] = LocalPlaylist(s)]
                         ELSE s3_playlist
  /\ UNCHANGED << poller, uploader, watcher, workload, sqs, redeliveries, restarts, gpu_type,
                  current_concurrent_limit, active_stories, story_state,
                  story_message_map, processed_idempotency_keys, ttfa_values, pc,
                  cur, processed_keys, s3_locks, ddb_last_seq,
                  active_workers, synthesis_result, resume_info,
                  marked_ok, published, rendered >>

\* shutdown(), under the lock: running False, state COMPLETE
ShutdownFlag(s) ==
  /\ pipelines[s].caller = "shutdown"
  /\ ~LockHeld(pipelines[s])
  /\ pipelines' = [pipelines EXCEPT ![s] =
                     [ @ EXCEPT !.caller = "flagged", !.running = FALSE,
                                !.state = "COMPLETE" ]]
  /\ UNCHANGED << poller, uploader, watcher, workload, sqs, redeliveries, restarts, gpu_type,
                  current_concurrent_limit, active_stories, story_state,
                  story_message_map, processed_idempotency_keys, ttfa_values, pc,
                  cur, processed_keys, s3_locks, s3_segments, ddb_last_seq,
                  active_workers, synthesis_result, resume_info, s3_playlist,
                  marked_ok, published, rendered >>

\* shutdown(): the final chunk is put on the queue
ShutdownPut(s) ==
  /\ pipelines[s].caller = "flagged"
  /\ pipelines' = [pipelines EXCEPT ![s] =
                     [ FeedChunk(@, FinalChunk(s)) EXCEPT !.caller = "queued" ]]
  /\ UNCHANGED << poller, uploader, watcher, workload, sqs, redeliveries, restarts, gpu_type,
                  current_concurrent_limit, active_stories, story_state,
                  story_message_map, processed_idempotency_keys, ttfa_values, pc,
                  cur, processed_keys, s3_locks, s3_segments, ddb_last_seq,
                  active_workers, synthesis_result, resume_info, s3_playlist,
                  marked_ok, published, rendered >>

\* shutdown(): join(timeout=3.0) on the writer and on the monitor thread;
\* each join returns when its thread has ended or when the time is up; the
\* caller then goes into _finalize_pipeline
ShutdownJoin(s) ==
  /\ pipelines[s].caller = "queued"
  /\ \E writer_timeout, uploader_timeout \in BOOLEAN :
       /\ pipelines[s].writer = "done" \/ writer_timeout
       /\ pipelines[s].monitor = "done" \/ uploader_timeout
  /\ pipelines' = [pipelines EXCEPT ![s].caller = "finalizing"]
  /\ UNCHANGED << poller, uploader, watcher, workload, sqs, redeliveries, restarts, gpu_type,
                  current_concurrent_limit, active_stories, story_state,
                  story_message_map, processed_idempotency_keys, ttfa_values, pc,
                  cur, processed_keys, s3_locks, s3_segments, ddb_last_seq,
                  active_workers, synthesis_result, resume_info, s3_playlist,
                  marked_ok, published, rendered >>

InitPipeline == Boot("T4", {})

NextPipeline ==
  \/ \E s \in PipelineStories, is_final \in BOOLEAN : FeedAudio(s, is_final)
  \/ \E s \in PipelineStories : WriterLoop(s)
  \/ \E s \in PipelineStories : WriterGet(s)
  \/ \E s \in PipelineStories : MonitorLoop(s)
  \/ \E s \in PipelineStories : UploadMonitor(s)
  \/ \E s \in PipelineStories : MonitorCheckComplete(s)
  \/ \E s \in PipelineStories, t \in PipelineThreads : FinalizeEndlist(s, t)
  \/ \E s \in PipelineStories, t \in PipelineThreads : FinalizeClose(s, t)
  \/ \E s \in PipelineStories : ShutdownFlag(s)
  \/ \E s \in PipelineStories : ShutdownPut(s)
  \/ \E s \in PipelineStories : ShutdownJoin(s)

SpecPipeline == InitPipeline /\ [][NextPipeline]_vars

(***************************************************************************)
(* The writer's segment buffer (StoryFFmpegPipeline._write_to_ffmpeg)      *)
(***************************************************************************)

AllButPipelines ==
  << poller, uploader, watcher, workload, sqs, redeliveries, restarts, gpu_type,
     current_concurrent_limit, active_stories, story_state, story_message_map,
     processed_idempotency_keys, ttfa_values, pc, cur, processed_keys,
     s3_locks, s3_segments, ddb_last_seq, active_workers, synthesis_result,
     resume_info, s3_playlist, marked_ok, published, rendered >>

\* byte counts of the audio chunks handed to _write_to_ffmpeg
PcmSizes == {0, 1, 23999, 48000, 96001}

\* the while loop of _write_to_ffmpeg on a buffer of buf bytes, writes being
\* the sizes written so far in this call: as long as a whole segment is
\* buffered, exactly segment_duration_bytes are written and removed; when
\* the write numbered broken_at raises BrokenPipeError the call returns
\* False with the data still in the buffer
SegmentDataWhole(buf) == buf

\* segment_data = partial_segment_buffer[:segment_duration_bytes]
SegmentData(buf) == Min(buf, SegmentDurationBytes)

RECURSIVE WriteWholeSegments(_, _, _)
WriteWholeSegments(buf, writes, broken_at) ==
  IF buf >= SegmentDurationBytes
  THEN IF broken_at = Len(writes) + 1
       THEN [partial_segment_buffer |-> buf, writes |-> writes,
             success |-> FALSE]
       ELSE WriteWholeSegments(buf - SegmentData(buf),
                               Append(writes, SegmentData(buf)), broken_at)
  ELSE [partial_segment_buffer |-> buf, writes |-> writes, success |-> TRUE]

\* _write_to_ffmpeg(pcm_data): the data is added to partial_segment_buffer,
\* then the loop runs; stream keeps the buffer length, the writes of the
\* latest call and its result
WriteToFfmpeg(s, pcm_len, broken_at) ==
  /\ pipelines[s].exists
  /\ pipelines[s].stream.success
  /\ ~pipelines[s].stream.flushed
  /\ pipelines[s].stream.calls < MaxWrites
  /\ LET r == WriteWholeSegments(
                pipelines[s].stream.partial_segment_buffer + pcm_len, <<>>,
                broken_at)
     IN pipelines' =
          [pipelines EXCEPT ![s] =
             [ @ EXCEPT !.stream =
                 [partial_segment_buffer |-> r.partial_segment_buffer,
                  writes |-> r.writes, success |-> r.success,
                  flushed |-> FALSE, calls |-> @.calls + 1],
               !.state = IF r.success THEN @ ELSE "ERROR" ]]
  /\ UNCHANGED AllButPipelines

\* the writer thread on the final chunk: what is left in the buffer is
\* written in one piece and the buffer is cleared
FlushPartialSegment(s) ==
  /\ pipelines[s].exists
  /\ pipelines[s].stream.success
  /\ ~pipelines[s].stream.flushed
  /\ pipelines[s].stream.calls > 0
  /\ pipelines' =
       [pipelines EXCEPT ![s].stream =
          [ @ EXCEPT !.writes =
                       IF pipelines[s].stream.partial_segment_buffer > 0
                       THEN << pipelines[s].stream.partial_segment_buffer >>
                       ELSE <<>>,
                     !.partial_segment_buffer = 0,
                     !.flushed = TRUE ]]
  /\ UNCHANGED AllButPipelines

\* main.py:392-399: the pipeline of the story is created
CreatePipeline(s) ==
  /\ ~pipelines[s].exists
  /\ pipelines' = [pipelines EXCEPT ![s] = StartPipeline(@)]
  /\ UNCHANGED AllButPipelines

InitWriter == Boot("T4", {})

NextWriter ==
  \/ \E s \in PipelineStories : CreatePipeline(s)
  \/ \E s \in PipelineStories, pcm_len \in PcmSizes, broken_at \in 0 .. 2 :
       WriteToFfmpeg(s, pcm_len, broken_at)
  \/ \E s \in PipelineStories : FlushPartialSegment(s)

SpecWriter == InitWriter /\ [][NextWriter]_vars

(***************************************************************************)
(* One round of the upload monitor, file by file                           *)
(* (CompleteS3Uploader.upload_new_segments, upload_playlist)               *)
(***************************************************************************)

\* the monitor thread is not inside upload_new_segments
NoRound == [active |-> FALSE, count |-> 0, pos |-> 0, uploaded |-> <<>>]

\* _upload_monitor_thread finds more segment files than last_uploaded and
\* calls upload_new_segments(from_segment=last_uploaded), which lists the
\* directory (count files) and starts at segments[from_segment]
UploadRoundStart(s) ==
  /\ pipelines[s].exists
  /\ pipelines[s].monitor \in {"top", "body"}
  /\ ~pipelines[s].round.active
  /\ Len(pipelines[s].fed) > pipelines[s].uploaded
  /\ pipelines' = [pipelines EXCEPT ![s].round =
                     [active |-> TRUE, count |-> Len(pipelines[s].fed),
                      pos |-> pipelines[s].uploaded, uploaded |-> <<>>]]
  /\ UNCHANGED AllButPipelines

UploadOutcomes == {"put", "small", "failed"}

\* one turn of the for loop of upload_new_segments on the file at pos: a
\* file under 1024 bytes is passed over; else s3.upload_file puts the
\* object under the segment's key and the number is appended to uploaded;
\* when the third attempt fails the call returns success False and the
\* monitor's round is over
UploadSegmentFile(s, outcome) ==
  /\ pipelines[s].round.active
  /\ pipelines[s].round.pos < pipelines[s].round.count
  /\ LET i == pipelines[s].round.pos
     IN /\ s3_segments' = IF outcome = "put" THEN s3_segments \cup { << s, i >> }
                          ELSE s3_segments
        /\ published' = IF outcome = "put"
                        THEN published \cup { pipelines[s].fed[i + 1] }
                        ELSE published
        /\ pipelines' =
             [pipelines EXCEPT ![s].round =
                IF outcome = "failed" THEN NoRound
                ELSE [ @ EXCEPT !.pos = i + 1,
                                !.uploaded = IF outcome = "put"
                                             THEN Append(@, i) ELSE @ ]]
  /\ UNCHANGED << poller, uploader, watcher, workload, sqs, redeliveries, restarts, gpu_type,
                  current_concurrent_limit, active_stories, story_state,
                  story_message_map, processed_idempotency_keys, ttfa_values, pc,
                  cur, processed_keys, s3_locks, ddb_last_seq, active_workers,
                  synthesis_result, resume_info, s3_playlist, marked_ok,
                  rendered >>

\* upload_new_segments has returned success: upload_playlist follows, and
\* last_uploaded becomes the count of the round when that succeeded too
UploadRoundPlaylist(s, playlist_ok) ==
  /\ pipelines[s].round.active
  /\ pipelines[s].round.pos = pipelines[s].round.count
  /\ s3_playlist' = IF playlist_ok
                    THEN [s3_playlist EXCEPT ![s] = LocalPlaylist(s)]
                    ELSE s3_playlist
  /\ pipelines' =
       [pipelines EXCEPT ![s] =
          [ @ EXCEPT !.round = NoRound,
                     !.uploaded = IF playlist_ok THEN pipelines[s].round.count
                                  ELSE @ ]]
  /\ UNCHANGED << poller, uploader, watcher, workload, sqs, redeliveries, restarts, gpu_type,
                  current_concurrent_limit, active_stories, story_state,
                  story_message_map, processed_idempotency_keys, ttfa_values, pc,
                  cur, processed_keys, s3_locks, s3_segments, ddb_last_seq,
                  active_workers, synthesis_result, resume_info, marked_ok,
                  published, rendered >>

InitUpload == Boot("T4", {})

NextUpload ==
  \/ \E s \in PipelineStories, is_final \in BOOLEAN : FeedAudio(s, is_final)
  \/ \E s \in PipelineStories : WriterLoop(s)
  \/ \E s \in PipelineStories : WriterGet(s)
  \/ \E s \in PipelineStories : UploadRoundStart(s)
  \/ \E s \in PipelineStories, outcome \in UploadOutcomes :
       UploadSegmentFile(s, outcome)
  \/ \E s \in PipelineStories, playlist_ok \in BOOLEAN :
       UploadRoundPlaylist(s, playlist_ok)

SpecUpload == InitUpload /\ [][NextUpload]_vars

(***************************************************************************)
(* The sequential upload queue (BlueprintS3Uploader, worker/src/           *)
(* s3_uploader.py)                                                         *)
(***************************************************************************)

UploaderStories == {"s1", "s2"}

SegmentTask(n) == [type |-> "segment", num |-> n]
PlaylistTask == [type |-> "playlist", num |-> 0]

\* the task lists handed to queue_sequential_upload when n segment tasks
\* have been queued for the story before: segments in order, the playlist
\* last (upload_story_hls), or one of them alone
TaskLists(n) ==
  { << SegmentTask(n) >>, << SegmentTask(n), SegmentTask(n + 1) >>,
    << SegmentTask(n), PlaylistTask >>, << PlaylistTask >> }

AllTaskLists == UNION { TaskLists(n) : n \in 0 .. MaxTasks }

SegmentTasks(tasks) == Len(SelectSeq(tasks, LAMBDA t : t.type = "segment"))

\* the threads of a story that have not run to their end
LiveWorkers(up, s) ==
  { k \in DOMAIN up.threads[s] : up.threads[s][k].at # "done" }

StartUploadWorkerAlways(up, s) ==
  [ up EXCEPT !.threads[s] = Append(@, [at |-> "top", task |-> PlaylistTask]),
              !.upload_workers = @ \cup {s} ]

\* _start_upload_worker, under worker_lock: nothing when the story has a
\* registered worker, else a thread is started and registered
StartUploadWorker(up, s) ==
  IF s \in up.upload_workers THEN up
  ELSE [ up EXCEPT !.threads[s] = Append(@, [at |-> "top", task |-> PlaylistTask]),
                   !.upload_workers = @ \cup {s} ]

\* queue_sequential_upload, under queue_lock: the tasks are appended to the
\* story's queue and the worker is started if none is registered
QueueSequentialUpload(s, tasks) ==
  /\ tasks \in TaskLists(uploader.segments_queued[s])
  /\ uploader.queued[s] + Len(tasks) <= MaxTasks
  /\ uploader' =
       StartUploadWorker(
         [ uploader EXCEPT !.upload_queue[s] = @ \o tasks,
                           !.queued[s] = @ + Len(tasks),
                           !.segments_queued[s] = @ + SegmentTasks(tasks) ], s)
  /\ UNCHANGED << poller, watcher, workload, sqs, redeliveries, restarts, gpu_type,
                  current_concurrent_limit, active_stories, story_state,
                  story_message_map, processed_idempotency_keys, ttfa_values, pc,
                  cur, processed_keys, s3_locks, s3_segments, pipelines,
                  ddb_last_seq, active_workers, synthesis_result, resume_info,
                  s3_playlist, marked_ok, published, rendered >>

\* the top of the worker's loop with the end of the worker split from its
\* deregistration: the worker that finds its queue empty ends and leaves
\* its registration behind
UploadWorkerNextKeepsRegistration(s, k) ==
  /\ k \in DOMAIN uploader.threads[s]
  /\ uploader.threads[s][k].at = "top"
  /\ uploader' =
       IF uploader.upload_queue[s] = <<>>
       THEN [ uploader EXCEPT !.threads[s][k].at = "done" ]
       ELSE [ uploader EXCEPT !.threads[s][k] =
                [at |-> "execute", task |-> Head(uploader.upload_queue[s])] ]
  /\ UNCHANGED << poller, watcher, workload, sqs, redeliveries, restarts, gpu_type,
                  current_concurrent_limit, active_stories, story_state,
                  story_message_map, processed_idempotency_keys, ttfa_values, pc,
                  cur, processed_keys, s3_locks, s3_segments, pipelines,
                  ddb_last_seq, active_workers, synthesis_result, resume_info,
                  s3_playlist, marked_ok, published, rendered >>

\* the top of the worker's loop, under queue_lock: with an empty queue the
\* worker removes its registration and ends; else it takes a copy of the
\* task at the head of the queue
UploadWorkerNext(s, k) ==
  /\ k \in DOMAIN uploader.threads[s]
  /\ uploader.threads[s][k].at = "top"
  /\ uploader' =
       IF uploader.upload_queue[s] = <<>>
       THEN [ uploader EXCEPT !.threads[s][k].at = "done",
                              !.upload_workers = @ \ {s} ]
       ELSE [ uploader EXCEPT !.threads[s][k] =
                [at |-> "execute", task |-> Head(uploader.upload_queue[s])] ]
  /\ UNCHANGED << poller, watcher, workload, sqs, redeliveries, restarts, gpu_type,
                  current_concurrent_limit, active_stories, story_state,
                  story_message_map, processed_idempotency_keys, ttfa_values, pc,
                  cur, processed_keys, s3_locks, s3_segments, pipelines,
                  ddb_last_seq, active_workers, synthesis_result, resume_info,
                  s3_playlist, marked_ok, published, rendered >>

\* what upload_segment (an existing object is skipped and counts as
\* uploaded; else upload_file, put_ok when it went through) and
\* update_playlist (refused while no segment of the story is recorded as
\* uploaded) return for the task
TaskSucceeds(s, task, put_ok) ==
  IF task.type = "segment"
  THEN << s, task.num >> \in s3_segments \/ put_ok
  ELSE uploader.segments_uploaded[s] # {} /\ put_ok

\* the worker executes the task it took; on success the task is removed
\* from the queue if it is still at the head, on failure the worker sleeps
\* and goes round the loop
UploadWorkerExecute(s, k, put_ok) ==
  /\ k \in DOMAIN uploader.threads[s]
  /\ uploader.threads[s][k].at = "execute"
  /\ LET task == uploader.threads[s][k].task
         success == TaskSucceeds(s, task, put_ok)
     IN /\ s3_segments' = IF task.type = "segment" /\ success
                          THEN s3_segments \cup { << s, task.num >> }
                          ELSE s3_segments
        /\ s3_playlist' = IF task.type = "playlist" /\ success
                          THEN [s3_playlist EXCEPT ![s] = LocalPlaylist(s)]
                          ELSE s3_playlist
        /\ uploader' =
             [ uploader EXCEPT
                 !.threads[s][k].at = "top",
                 !.segments_uploaded[s] =
                    IF task.type = "segment" /\ success THEN @ \cup {task.num}
                    ELSE @,
                 !.upload_queue[s] =
                    IF success /\ @ # <<>> /\ Head(@) = task THEN Tail(@) ELSE @ ]
  /\ UNCHANGED << poller, watcher, workload, sqs, redeliveries, restarts, gpu_type,
                  current_concurrent_limit, active_stories, story_state,
                  story_message_map, processed_idempotency_keys, ttfa_values, pc,
                  cur, processed_keys, s3_locks, pipelines, ddb_last_seq,
                  active_workers, synthesis_result, resume_info, marked_ok,
                  published, rendered >>

InitUploader == Boot("T4", {})

NextUploader ==
  \/ \E s \in UploaderStories, tasks \in AllTaskLists :
       QueueSequentialUpload(s, tasks)
  \/ \E s \in UploaderStories, k \in 1 .. MaxTasks : UploadWorkerNext(s, k)
  \/ \E s \in UploaderStories, k \in 1 .. MaxTasks, put_ok \in BOOLEAN :
       UploadWorkerExecute(s, k, put_ok)

SpecUploader == InitUploader /\ [][NextUploader]_vars

\* the queue and the worker of one story (each story has a queue and a
\* worker of its own), with the threads scheduled: a worker thread that is
\* at the top of its loop eventually runs, and a storage call that is made
\* again and again eventually goes through
NextUploaderFair ==
  \/ \E tasks \in AllTaskLists : QueueSequentialUpload("s1", tasks)
  \/ \E k \in 1 .. MaxTasks : UploadWorkerNext("s1", k)
  \/ \E k \in 1 .. MaxTasks, put_ok \in BOOLEAN :
       UploadWorkerExecute("s1", k, put_ok)

SpecUploaderFair ==
  /\ InitUploader
  /\ [][NextUploaderFair]_vars
  /\ WF_vars(\E k \in 1 .. MaxTasks : UploadWorkerNext("s1", k))
  /\ SF_vars(\E k \in 1 .. MaxTasks : UploadWorkerExecute("s1", k, TRUE))

(***************************************************************************)
(* The lease asked on receive (SQSConfig.calculate_visibility_timeout,     *)
(* _get_p95_synthesis_time)                                                *)
(***************************************************************************)

\* synthesis times of a render in tenths of a second: 0.5 s and 15.3 s
SynthTenths == {5, 153}

\* _get_p95_synthesis_time: 0.5 s with fewer than 10 samples, else the
\* element at index int(len * 0.95) of the sorted window
GetP95SynthesisTime(times) ==
  IF Len(times) < 10 THEN 5
  ELSE SortSeq(times, LAMBDA a, b : a < b)[((Len(times) * 95) \div 100) + 1]

\* calculate_visibility_timeout: max(30, int(p95 * 2)), int cutting the
\* fraction of a second off
CalculateVisibilityTimeout(p95_synth_time) ==
  Max(30, (p95_synth_time * 2) \div 10)

\* complete_render records the synthesis time in the window of 100
\* (sqs_poller.py:409-411); the window is followed here only
RecordSynthesisTime(t) ==
  /\ Len(poller.synthesis_times) < MaxWindow
  /\ poller' = [poller EXCEPT !.synthesis_times =
                  LET q == Append(@, t) IN IF Len(q) > 100 THEN Tail(q) ELSE q]
  /\ UNCHANGED << uploader, watcher, workload, sqs, redeliveries, restarts, gpu_type,
                  current_concurrent_limit, active_stories, story_state,
                  story_message_map, processed_idempotency_keys, ttfa_values, pc,
                  cur, processed_keys, s3_locks, s3_segments, pipelines,
                  ddb_last_seq, active_workers, synthesis_result, resume_info,
                  s3_playlist, marked_ok, published, rendered >>

\* _receive_messages: the lease is computed from the p95 of the moment
ReceiveMessages ==
  /\ poller' =
       [poller EXCEPT
          !.p95_synth_time = GetP95SynthesisTime(poller.synthesis_times),
          !.visibility_timeout =
             CalculateVisibilityTimeout(GetP95SynthesisTime(poller.synthesis_times))]
  /\ UNCHANGED << uploader, watcher, workload, sqs, redeliveries, restarts, gpu_type,
                  current_concurrent_limit, active_stories, story_state,
                  story_message_map, processed_idempotency_keys, ttfa_values, pc,
                  cur, processed_keys, s3_locks, s3_segments, pipelines,
                  ddb_last_seq, active_workers, synthesis_result, resume_info,
                  s3_playlist, marked_ok, published, rendered >>

NextReceive ==
  \/ \E t \in SynthTenths : RecordSynthesisTime(t)
  \/ ReceiveMessages

SpecReceive == InitPipeline /\ [][NextReceive]_vars

(***************************************************************************)
(* A scheduler in mid-run: stories with audio buffered, a TTFA window in   *)
(* place, the limit where earlier adjustments have left it                 *)
(***************************************************************************)

Repeat(x, n) == [i \in 1..n |-> x]

\* the TTFA windows of a process that has reported nine or ten first
\* sentences: all fast, all slow, and the mixes whose average is exactly the
\* low-water mark (800 ms) and exactly the high-water mark (1200 ms)
TtfaWindows ==
  { Repeat(500, TtfaWindow - 1), Repeat(1500, TtfaWindow - 1),
    Repeat(500, TtfaWindow), Repeat(1500, TtfaWindow),
    Repeat(500, 7) \o Repeat(1500, TtfaWindow - 7),
    Repeat(500, 3) \o Repeat(1500, TtfaWindow - 3) }

\* the window and the limit of a process that has reported first sentences
\* before, its stories new.  ENABLE_ADAPTIVE_CONCURRENCY is read once at
\* construction; the limit leaves min_concurrent only by an adjustment,
\* which takes adaptive scaling and a window of ten.
TunedLimit(g) ==
  /\ poller \in { [NoPoller EXCEPT !.enable_adaptive_scaling = e] : e \in BOOLEAN }
  /\ ttfa_values \in TtfaWindows
  /\ current_concurrent_limit \in
       (IF poller.enable_adaptive_scaling /\ Len(ttfa_values) >= TtfaWindow
        THEN ConcurrencyLimits(g)[1] .. ConcurrencyLimits(g)[2]
        ELSE {ConcurrencyLimits(g)[1]})
  /\ story_state = [s \in Stories |-> NewStoryState]

\* the stories of a young process of the narrowest class in mid-run, their
\* buffers empty, below the target or at it
TunedBuffers(g) ==
  /\ ConcurrencyLimits(g)[2] = 2
  /\ poller = NoPoller
  /\ ttfa_values = <<>>
  /\ current_concurrent_limit = ConcurrencyLimits(g)[1]
  /\ story_state \in
       { ss \in [Stories -> [buffer_seconds : {0, BufferTarget - 1, BufferTarget},
                             is_first_sentence_rendered : BOOLEAN,
                             is_complete : {FALSE},
                             active_render_count : {0}]] :
           ss["s2"] = NewStoryState }

\* stories s1 and s3 are tracked, which every class admits at its widest
\* (_process_message admits a new story below the limit only), with their
\* units in the order the producer sent them
InitTuned ==
  \E g \in GpuTypes :
    /\ gpu_type = g
    /\ TunedLimit(g) \/ TunedBuffers(g)
    /\ active_stories = <<"s1", "s3">>
    /\ story_message_map =
         [s \in Stories |->
            IF s \in {"s1", "s3"}
            THEN CHOOSE q \in Orders(UnitsOf({s})) :
                   \A i, j \in DOMAIN q : i < j => q[i].seq < q[j].seq
            ELSE <<>>]
    /\ processed_idempotency_keys = {}
    /\ pc = "idle"
    /\ cur = NoJob
    /\ processed_keys = {}
    /\ pipelines = [s \in Stories |-> NoPipeline]
    /\ active_workers = [w \in Workers |-> NoOwners]
    /\ synthesis_result = NoResult
    /\ resume_info = NoResumeInfo
    /\ uploader = NoUploader
    /\ watcher = NoWatcher
    /\ workload = Units
    /\ sqs = UnitsOf({"s2"})
    /\ redeliveries = 0
    /\ restarts = 0
    /\ s3_locks = {}
    /\ s3_segments = {}
    /\ s3_playlist = [s \in Stories |-> {}]
    /\ ddb_last_seq = [s \in Stories |-> 0]
    /\ marked_ok = {}
    /\ published = {}
    /\ rendered = {}

NextTuned ==
  \/ GetNextStory
  \/ StartRender
  \/ SynthesizeSentence
  \/ CompleteRender

SpecTuned == InitTuned /\ [][NextTuned]_vars

(***************************************************************************)
(* The health check of a pipeline (StoryFFmpegPipeline.is_healthy).  The   *)
(* pending-frame queue is followed by whether qsize() exceeds 15, the time *)
(* in steps of 10 seconds; since is the time the queue last rose above the *)
(* mark, and a verdict lasts until the next thing happens.                 *)
(***************************************************************************)

\* the caller removes a pipeline reported unhealthy (main.py:562-565)
Watched(s) ==
  pipelines[s].exists /\ pipelines[s].health.verdict \notin {"error", "exited", "queue"}

\* time.time() moves on
HealthTick(s) ==
  /\ Watched(s)
  /\ pipelines[s].health.now < MaxClock
  /\ pipelines' = [pipelines EXCEPT ![s].health =
                     [@ EXCEPT !.now = @ + 1, !.verdict = "none"]]
  /\ UNCHANGED AllButPipelines

\* feed_audio has put the sixteenth chunk while the writer is behind
QueueRises(s) ==
  /\ Watched(s)
  /\ ~pipelines[s].health.above
  /\ pipelines' = [pipelines EXCEPT ![s].health =
                     [@ EXCEPT !.above = TRUE, !.since = pipelines[s].health.now,
                                !.verdict = "none"]]
  /\ UNCHANGED AllButPipelines

\* the writer thread has taken the queue down to 15 chunks or fewer
QueueDrops(s) ==
  /\ Watched(s)
  /\ pipelines[s].health.above
  /\ pipelines' = [pipelines EXCEPT ![s].health =
                     [@ EXCEPT !.above = FALSE, !.verdict = "none"]]
  /\ UNCHANGED AllButPipelines

\* is_healthy on the health record: ERROR and an encoder that is gone come
\* first; above the mark the first check sets _queue_warn_time and reports
\* healthy, a later one reports unhealthy once more than the grace period
\* has passed since _queue_warn_time, which nothing ever clears
HealthCheck(p) ==
  LET h == p.health
  IN IF p.state = "ERROR" THEN [h EXCEPT !.verdict = "error"]
     ELSE IF p.starts = 0 \/ p.closes > 0 THEN [h EXCEPT !.verdict = "exited"]
     ELSE IF h.above /\ h.queue_warn_time = -1
          THEN [h EXCEPT !.queue_warn_time = h.now, !.verdict = "healthy"]
     ELSE IF h.above /\ h.now - h.queue_warn_time > GracePeriod
          THEN [h EXCEPT !.verdict = "queue"]
     ELSE [h EXCEPT !.verdict = "healthy"]

IsHealthy(s) ==
  /\ Watched(s)
  /\ pipelines' = [pipelines EXCEPT ![s].health = HealthCheck(pipelines[s])]
  /\ UNCHANGED AllButPipelines

\* _cleanup_completed_pipelines on a pipeline whose is_healthy has just
\* returned False: pipeline.shutdown() is called and the pipeline is taken
\* out of active_pipelines
TearDown(s) ==
  /\ pipelines[s].exists
  /\ pipelines[s].health.verdict \in {"error", "exited", "queue"}
  /\ pipelines[s].caller = "none"
  /\ pipelines' = [pipelines EXCEPT ![s].caller = "shutdown"]
  /\ UNCHANGED AllButPipelines

\* a pipeline that is fed units of the middle of a story, watched by the
\* health check and torn down when found unhealthy
NextHealth ==
  \/ \E s \in PipelineStories : CreatePipeline(s)
  \/ \E s \in PipelineStories : HealthTick(s)
  \/ \E s \in PipelineStories : QueueRises(s)
  \/ \E s \in PipelineStories : QueueDrops(s)
  \/ \E s \in PipelineStories : IsHealthy(s)
  \/ \E s \in PipelineStories : Watched(s) /\ FeedAudio(s, FALSE)
  \/ \E s \in PipelineStories : WriterLoop(s)
  \/ \E s \in PipelineStories : WriterGet(s)
  \/ \E s \in PipelineStories : TearDown(s)
  \/ \E s \in PipelineStories : ShutdownFlag(s)
  \/ \E s \in PipelineStories : ShutdownPut(s)
  \/ \E s \in PipelineStories : ShutdownJoin(s)
  \/ \E s \in PipelineStories : FinalizeEndlist(s, "caller")
  \/ \E s \in PipelineStories : FinalizeClose(s, "caller")

SpecHealth == InitPipeline /\ [][NextHealth]_vars

(***************************************************************************)
(* Messages that break the schema of the queue                             *)
(***************************************************************************)

\* the messages of one story: a well-formed one, one with a negative seq
\* and one with an empty text (validate_message_schema of the fallback
\* consumer refuses the last two), and one from a producer that keys by
\* content: the text of seq 0 again at seq 2, under the same key
SchemaUnits ==
  { Unit("s1", 0, "a", FALSE), Unit("s1", -2, "b", FALSE), Unit("s1", 1, "", FALSE),
    [Unit("s1", 2, "a", FALSE) EXCEPT !.idempotency_key = << "s1", 0, "a" >>] }

\* _polling_loop and the worker loop on these messages
NextSchema ==
  \/ \E u \in SchemaUnits : PollMessage(u)
  \/ \E u \in SchemaUnits : Redeliver(u)
  \/ GetNextStory
  \/ StartRender
  \/ SynthesizeSentence
  \/ CompleteRender

InitSchema == Boot("T4", SchemaUnits)
SpecSchema == InitSchema /\ [][NextSchema]_vars

(***************************************************************************)
(* The EBS staging watcher of a story (EBSStagingWatcher): stage_segment   *)
(* and stage_playlist put a task in upload_queue, _upload_processor takes  *)
(* them out.  The staged files are taken to be complete when looked at.    *)
(***************************************************************************)

\* stage_segment with the next segment number, or stage_playlist
Stage(task) ==
  /\ Len(watcher.staged) < MaxStaged
  /\ task \in { SegmentTask(SegmentTasks(watcher.staged)), PlaylistTask }
  /\ watcher' = [watcher EXCEPT !.upload_queue = Append(@, task),
                                !.staged = Append(@, task)]
  /\ UNCHANGED << poller, uploader, workload, sqs, redeliveries, restarts, gpu_type,
                  current_concurrent_limit, active_stories, story_state,
                  story_message_map, processed_idempotency_keys, ttfa_values, pc,
                  cur, processed_keys, s3_locks, s3_segments, pipelines,
                  ddb_last_seq, active_workers, synthesis_result, resume_info,
                  s3_playlist, marked_ok, published, rendered >>

\* one round of _upload_processor: the task at the head is taken out and
\* uploaded (upload_segment, then update_story_progress, whose write may
\* fail; or update_playlist with the segments staged so far); a task whose
\* upload failed is put into the queue again, behind the tasks waiting there
UploadProcessor(put_ok, ddb_ok) ==
  /\ watcher.upload_queue # <<>>
  /\ LET task == Head(watcher.upload_queue)
         success == TaskSucceeds("s1", task, put_ok)
         segment == task.type = "segment" /\ success
     IN /\ watcher' =
             [watcher EXCEPT
                !.upload_queue = IF success THEN Tail(@) ELSE Append(Tail(@), task),
                !.uploaded = IF success THEN Append(@, task) ELSE @]
        /\ s3_segments' = IF segment THEN s3_segments \cup { << "s1", task.num >> }
                          ELSE s3_segments
        /\ uploader' = IF segment
                       THEN [uploader EXCEPT !.segments_uploaded["s1"] = @ \cup {task.num}]
                       ELSE uploader
        /\ ddb_last_seq' = IF segment /\ ddb_ok
                           THEN [ddb_last_seq EXCEPT !["s1"] = task.num]
                           ELSE ddb_last_seq
        /\ s3_playlist' =
             IF task.type = "playlist" /\ success
             THEN [s3_playlist EXCEPT !["s1"] =
                     0 .. (SegmentTasks(watcher.staged) - 1)]
             ELSE s3_playlist
  /\ UNCHANGED << poller, workload, sqs, redeliveries, restarts, gpu_type,
                  current_concurrent_limit, active_stories, story_state,
                  story_message_map, processed_idempotency_keys, ttfa_values, pc,
                  cur, processed_keys, s3_locks, pipelines,
                  active_workers, synthesis_result, resume_info,
                  marked_ok, published, rendered >>

NextWatcher ==
  \/ \E task \in { SegmentTask(n) : n \in 0 .. MaxStaged } \cup {PlaylistTask} :
       Stage(task)
  \/ \E put_ok, ddb_ok \in BOOLEAN : UploadProcessor(put_ok, ddb_ok)

SpecWatcher == InitPipeline /\ [][NextWatcher]_vars

(***************************************************************************)
(* Properties                                                              *)
(***************************************************************************)

\* C1: for every story and at every moment, every segment the published
\* playlist references has already been published.
C1_ManifestReferencesPublished ==
  \A s \in Stories : \A n \in s3_playlist[s] : << s, n >> \in s3_segments

\* C2: a unit carries the processed marker (memory cache or lock file) only
\* if its segment has been durably published.
C2_MarkedOnlyAfterPublished ==
  \A u \in Units :
    (IdempotencyKey(u) \in processed_keys \/ IdempotencyKey(u) \in s3_locks)
      => u \in published

\* C3: a unit that has been fully processed (rendered, marked, published) and
\* is delivered again is acknowledged: receiving it never leaves it in the
\* queue.
C3_RedeliveryAcknowledged ==
  \A u \in Units :
    (u \in sqs /\ u \in rendered /\ u \in marked_ok /\ u \in published)
      => ProcessMessageResult(u) # "rejected"

\* C4: a message leaves the queue only when its unit has been rendered
\* successfully or is recognised as already processed.
C4_DeleteOnlyAfterRendered ==
  [][ \A u \in Units :
        (u \in sqs /\ u \notin sqs')
          => (u \in rendered \/ MessageKey(u) \in processed_idempotency_keys) ]_vars

\* C5: when synthesis or feeding of a unit failed, the step that ends its
\* job does not record the unit as processed.
C5_FailedNotRecorded ==
  [][ (pc = "synthesized" /\ synthesis_result.status = "failed" /\ pc' = "idle")
        => MessageKey(cur.unit) \notin processed_idempotency_keys' ]_vars

C7_FirstCallsDistinctStories ==
  (pc = "picked" /\ Cardinality(processed_idempotency_keys) < current_concurrent_limit)
    => /\ \A k \in processed_idempotency_keys : k[1] # cur.story
       /\ \A u \in UnitsOf({cur.story}) : cur.unit.seq <= u.seq

\* C7 fails on the story too: within the first limit-many calls a story is
\* returned again although it had a job completed already
C7_StoryReturnedTwice ==
  /\ pc = "picked"
  /\ Cardinality(processed_idempotency_keys) < current_concurrent_limit
  /\ \E k \in processed_idempotency_keys : k[1] = cur.story

\* C8: while some tracked story has had nothing rendered and has a pending
\* job, the job returned is a Phase 1 job of a story whose first unit is not
\* rendered.
C8_Phase1BeforePhase2 ==
  [][ (pc = "idle" /\ pc' = "picked"
       /\ \E s \in Range(active_stories) :
            /\ ~story_state[s].is_complete
            /\ Pending(s) # <<>>
            /\ \A u \in rendered : u.story # s
            /\ \A k \in processed_idempotency_keys : k[1] # s)
        => /\ cur'.phase = 1
           /\ \A u \in rendered :
                u.story = cur'.story => \E v \in UnitsOf({u.story}) : v.seq < u.seq ]_vars

\* C9: the units of one story are handed to synthesis in increasing sequence
\* order: a job picked has a higher sequence number than every unit of its
\* story rendered before (each message delivered once, no restart).
C9_IncreasingSeqOrder ==
  (pc = "picked" /\ restarts = 0 /\ redeliveries = 0)
    => \A u \in rendered : u.story = cur.story => u.seq < cur.unit.seq

C11_ListingWins ==
  \A s \in Stories :
    resume_info.story = s
      => resume_info.resume_from =
           (IF LoadExistingS3Segments(s) = {} THEN 0
            ELSE SetMax(LoadExistingS3Segments(s)) + 1)

\* C12: at most one worker holds the claim of a story at any time.
C12_OneOwner ==
  \A s \in Stories :
    Cardinality({ w \in Workers : active_workers[w][s] # NoWorker }) <= 1

\* C13: a unit of a story that another worker has claimed is discarded by
\* this worker, whose get_resume_point meets the conflict: the unit is not
\* synthesized.
C13_ConflictDiscards ==
  [][ (pc = "rendering" /\ pc' = "synthesized" /\ cur.unit.seq = 1
       /\ \E w \in Workers \ {INSTANCE_ID} : active_workers[w][cur.story] = w)
        => synthesis_result'.status \notin {"ok", "failed"} ]_vars

\* C14: when the interruption notice is handled, every story this worker
\* owns that has segments published from 0 on has its highest contiguous
\* published segment number in the progress table as last_seq_written.
C14_CheckpointWritten ==
  [][ restarts' # restarts
        => \A s \in Stories : \A n \in 0 .. MaxSeg :
             (/\ active_workers[INSTANCE_ID][s] = INSTANCE_ID
              /\ \A i \in 0 .. n : << s, i >> \in s3_segments
              /\ << s, n + 1 >> \notin s3_segments)
               => ddb_last_seq'[s] = n ]_vars

\* C15: the last_seq_written of a story never decreases.
C15_PointerMonotonic ==
  [][ \A s \in Stories : ddb_last_seq'[s] >= ddb_last_seq[s] ]_vars

\* C16: a story that is marked complete and whose buffer is at 0 is
\* eventually removed from active_stories and from story_message_map.
C16_CompletedStoryRemoved ==
  \A s \in Stories :
    (IsActive(s) /\ story_state[s].is_complete /\ story_state[s].buffer_seconds = 0)
      ~> (~IsActive(s) /\ story_message_map[s] = <<>>)

\* C17: a message in the queue is never rejected back to the queue when it
\* is received: the job of a new story that arrives at the concurrency limit
\* is tracked as well.
C17_NeverRejected ==
  \A u \in Units : u \in sqs => ProcessMessageResult(u) # "rejected"

\* C18: after the final unit of a story has been fed, the encoder is shut
\* down exactly once and exactly one end-of-stream marker is put in the
\* manifest, however the upload monitor thread, the writer thread and
\* shutdown() interleave: never more than one of either, and one of each
\* when shutdown() has returned.
C18_OneShutdownOneMarker ==
  \A s \in PipelineStories :
    /\ pipelines[s].endlist <= 1
    /\ pipelines[s].closes <= 1
    /\ pipelines[s].caller = "done"
         => (pipelines[s].endlist = 1 /\ pipelines[s].closes = 1)

C20_MarkerAfterEncoderExit ==
  [][ \A s \in PipelineStories :
        pipelines'[s].endlist > pipelines[s].endlist
          => (pipelines[s].stdin_closed /\ pipelines[s].closes >= 1) ]_vars

\* C21 as stated: before the final flush every write to the encoder's input
\* is exactly one segment of 48000 bytes, and after each _write_to_ffmpeg
\* step fewer than 48000 bytes remain in the partial-segment buffer.
C21_ExactSegmentWrites ==
  \A s \in PipelineStories :
    ~pipelines[s].stream.flushed
      => /\ \A i \in 1 .. Len(pipelines[s].stream.writes) :
              pipelines[s].stream.writes[i] = 48000
         /\ pipelines[s].stream.partial_segment_buffer < 48000

\* C21 amended: before the final flush every write to the encoder's input
\* is exactly one segment of 48000 bytes, and after each _write_to_ffmpeg
\* step that returned True fewer than 48000 bytes remain in the buffer.
C21_ExactSegmentWritesOnSuccess ==
  \A s \in PipelineStories :
    ~pipelines[s].stream.flushed
      => /\ \A i \in 1 .. Len(pipelines[s].stream.writes) :
              pipelines[s].stream.writes[i] = 48000
         /\ pipelines[s].stream.success
              => pipelines[s].stream.partial_segment_buffer < 48000

\* C21 happens: a call on a buffer that already held a part of a segment
\* wrote two whole segments and left a part behind
C21_Witness ==
  \E s \in PipelineStories :
    /\ pipelines[s].stream.calls >= 2
    /\ pipelines[s].stream.success
    /\ ~pipelines[s].stream.flushed
    /\ Len(pipelines[s].stream.writes) = 2
    /\ pipelines[s].stream.partial_segment_buffer > 0

\* C22: once the segment object of a story and sequence exists in storage,
\* no upload writes that object again: a step of the uploader that puts a
\* segment (its number is appended to the uploaded list of the round) puts
\* one that was not in the bucket.
C22_SegmentNeverRewritten ==
  [][ \A s \in PipelineStories :
        Len(pipelines'[s].round.uploaded) = Len(pipelines[s].round.uploaded) + 1
          => << s, pipelines[s].round.pos >> \notin s3_segments ]_vars

\* C23, one at a time and in FIFO order: a worker thread of a story takes a
\* task only when it is the head of the story's queue and no other thread
\* of the story is executing one; a task leaves the queue only from the
\* head, after the thread executing it succeeded, so a failed task stays at
\* the head and is retried before any later one; and a story has at most
\* one live upload worker thread at any time.
C23_SequentialUploads ==
  [][ \A s \in UploaderStories :
        /\ Cardinality(LiveWorkers(uploader', s)) <= 1
        /\ \A k \in DOMAIN uploader.threads[s] :
             (uploader.threads[s][k].at = "top"
              /\ uploader'.threads[s][k].at = "execute")
               => /\ uploader'.threads[s][k].task = Head(uploader.upload_queue[s])
                  /\ \A j \in DOMAIN uploader.threads[s] :
                       uploader.threads[s][j].at # "execute"
        /\ Len(uploader'.upload_queue[s]) < Len(uploader.upload_queue[s])
             => /\ uploader'.upload_queue[s] = Tail(uploader.upload_queue[s])
                /\ \E k \in DOMAIN uploader.threads[s] :
                     /\ uploader.threads[s][k].at = "execute"
                     /\ uploader.threads[s][k].task = Head(uploader.upload_queue[s])
                     /\ uploader'.threads[s][k].at = "top"
        /\ (\E k \in DOMAIN uploader.threads[s] :
              /\ uploader.threads[s][k].at = "execute"
              /\ uploader'.threads[s][k].at = "top"
              /\ Len(uploader'.upload_queue[s]) = Len(uploader.upload_queue[s]))
             => uploader'.upload_queue[s] = uploader.upload_queue[s] ]_vars

\* C23 happens: the worker of a story failed on a task and went round its
\* loop while a later task waits behind it, after an earlier worker of the
\* story had run to its end
C23_Witness ==
  \E s \in UploaderStories :
    /\ Len(uploader.threads[s]) = 2
    /\ uploader.threads[s][2].at = "top"
    /\ Len(uploader.upload_queue[s]) = 2
    /\ uploader.segments_uploaded[s] # {}
    /\ Head(uploader.upload_queue[s]).type = "segment"
    /\ << s, Head(uploader.upload_queue[s]).num >> \notin s3_segments

\* C24: for every story, the init artifact is in storage before the story's
\* first segment is: whenever the bucket holds a segment of a story, it
\* holds the story's init.mp4.
C24_InitBeforeFirstSegment ==
  \A s \in Stories :
    (\E n \in 0 .. MaxSeg : << s, n >> \in s3_segments)
      => << s, -1 >> \in s3_segments

C28_LeaseCoversTwiceP95 ==
  poller.visibility_timeout * 10 >= Max(300, 2 * poller.p95_synth_time)

C27_LowestBufferFirst ==
  [][ (/\ pc = "idle"
       /\ ~\E s \in Range(active_stories) :
             /\ ~story_state'[s].is_first_sentence_rendered
             /\ ~story_state'[s].is_complete
             /\ Pending(s) # <<>>)
      => LET below == { s \in Range(active_stories) :
                          /\ story_state'[s].is_first_sentence_rendered
                          /\ ~story_state'[s].is_complete
                          /\ story_state'[s].buffer_seconds < 3
                          /\ Pending(s) # <<>> }
             admits == Cardinality({ s \in Range(active_stories) :
                                       story_state'[s].active_render_count > 0 })
                         < current_concurrent_limit'
         IN /\ (below # {} /\ admits) => pc' = "picked"
            /\ pc' = "picked" =>
                 /\ cur'.story \in below
                 /\ cur'.unit = Pending(cur'.story)[1]
                 /\ \A s \in below : story_state'[cur'.story].buffer_seconds
                                       <= story_state'[s].buffer_seconds
                 /\ story_state'[cur'.story].buffer_seconds < 3 ]_vars

\* both stories have had their first sentence, the one listed first holds 2
\* seconds and the other less, and the job returned is the other's
C27_Witness ==
  /\ pc = "picked"
  /\ \A s \in {"s1", "s3"} : story_state[s].is_first_sentence_rendered
                                /\ Pending(s) # <<>>
  /\ story_state["s1"].buffer_seconds = 2
  /\ story_state["s3"].buffer_seconds < 2
  /\ cur.story = "s3"
  /\ cur.unit = Pending("s3")[1]

\* C29: current_concurrent_limit is always within [min_concurrent,
\* max_concurrent]; a step moves it by at most one, up only when adaptive
\* scaling is enabled and the last 10 TTFA samples average below 800 ms, down
\* only when they average above 1200 ms, and not at all with fewer than 10
\* samples or with adaptive scaling disabled.
C29_LimitWithinBandMovesByRule ==
  /\ [](current_concurrent_limit \in min_concurrent .. max_concurrent)
  /\ [][ LET full == Len(ttfa_values) >= 10
             total == IF full
                      THEN SumSeq(SubSeq(ttfa_values, Len(ttfa_values) - 9,
                                         Len(ttfa_values)))
                      ELSE 0
             step == current_concurrent_limit' - current_concurrent_limit
         IN /\ step \in {-1, 0, 1}
            /\ step = 1 => poller.enable_adaptive_scaling /\ full /\ total < 800 * 10
            /\ step = -1 => poller.enable_adaptive_scaling /\ full /\ total > 1200 * 10
            /\ (~full \/ ~poller.enable_adaptive_scaling) => step = 0 ]_vars

\* the tenth TTFA sample has come in after nine fast ones and the limit has
\* gone one step up from min_concurrent
C29_Witness ==
  /\ poller.enable_adaptive_scaling
  /\ ttfa_values = Append(Repeat(500, 9), 1500)
  /\ current_concurrent_limit = min_concurrent + 1

\* C30: is_healthy reports a pipeline unhealthy for queue pressure only when
\* the queue has been above the mark without a break for longer than the
\* grace period of 30 seconds; a queue that dropped below the mark and rose
\* again has a grace period of its own.
C30_FreshGracePeriod ==
  \A s \in PipelineStories :
    pipelines[s].health.verdict = "queue"
      => /\ pipelines[s].health.above
         /\ pipelines[s].health.now - pipelines[s].health.since > GracePeriod

\* C34: once complete_render has been called for a unit of a tracked story,
\* the story is marked first-rendered (no longer a Phase 1 candidate),
\* whatever the unit's sequence number and whether the render was real or
\* skipped.
C34_FirstRenderMarksStory ==
  \A s \in Range(active_stories) :
    (\E u \in UnitsOf({s}) : MessageKey(u) \in processed_idempotency_keys)
      => story_state[s].is_first_sentence_rendered

\* C32: the key that check_already_processed and mark_processed work on
\* depends only on (model_version, voice_id, text, speed, format): when a unit
\* is found processed, every unit with the same text (the other four fields
\* are the same for all units) is found processed too, whatever its story and
\* sequence number.
C32_KeyIgnoresStoryAndSeq ==
  \A u, v \in Units :
    (u.text = v.text /\ CheckAlreadyProcessed(u)) => CheckAlreadyProcessed(v)

\* C40: a unit whose mark_processed could not persist the lock file stays
\* unmarked: check_already_processed of the same process does not find it.
C40_FailedMarkStaysUnmarked ==
  \A u \in rendered \ marked_ok : ~CheckAlreadyProcessed(u)

\* C31: a message that breaks the schema (here: a negative seq, an empty
\* text) is rejected by the worker and is never handed to synthesis.
C31_MalformedNeverSynthesized ==
  pc \in {"rendering", "synthesized"} => (cur.unit.seq >= 0 /\ cur.unit.text # "")

\* C33: the watcher uploads the staged items of the story in the order they
\* were staged: when an item staged after a segment has been uploaded, the
\* segment has been uploaded before it, also after failed uploads and
\* retries.  (A playlist is told from an earlier staging of the playlist by
\* looking only at segments staged before the first playlist.)
C33_StagedOrderKept ==
  \A i, j \in DOMAIN watcher.staged :
    (/\ i < j
     /\ watcher.staged[i].type = "segment"
     /\ \A k \in 1 .. (i - 1) : watcher.staged[k] # watcher.staged[j]
     /\ \E n \in DOMAIN watcher.uploaded : watcher.uploaded[n] = watcher.staged[j])
    => \E m, n \in DOMAIN watcher.uploaded :
         /\ m < n
         /\ watcher.uploaded[m] = watcher.staged[i]
         /\ watcher.uploaded[n] = watcher.staged[j]
         /\ \A k \in 1 .. (n - 1) : watcher.uploaded[k] # watcher.staged[j]

\* C39: complete_render takes out of the story's pending list exactly the
\* job that was completed: every other pending job of the story stays, one
\* with another sequence number under the same idempotency key included,
\* and the pending lists of the other stories are unchanged.
C39_OnlyCompletedJobRemoved ==
  [][ (pc = "synthesized" /\ pc' = "idle" /\ IsActive(cur.story))
        => /\ story_message_map'[cur.story] =
                SelectSeq(story_message_map[cur.story], LAMBDA m : m # cur.unit)
           /\ \A s \in Stories \ {cur.story} :
                story_message_map'[s] = story_message_map[s] ]_vars

\* C35: every audio chunk that feed_audio accepted is written to the encoder
\* before the encoder's input is closed: once stdin is closed no accepted
\* audio chunk is still waiting in the queue, also when shutdown() follows
\* the feeding of the final unit at once.
C35_FedChunksWrittenBeforeClose ==
  \A s \in PipelineStories :
    pipelines[s].stdin_closed
      => \A i \in DOMAIN pipelines[s].queue : pipelines[s].queue[i].seq = -1

\* C36: the end-of-stream marker is in a story's playlist only after the
\* final-flagged unit of the story has been fed to the pipeline; tearing
\* down an unhealthy pipeline in the middle of a story does not write it.
C36_MarkerOnlyAfterFinalUnit ==
  \A s \in PipelineStories :
    pipelines[s].endlist > 0
      => \E chunk \in Range(pipelines[s].fed) \cup Range(pipelines[s].queue) :
           chunk.is_final /\ chunk.seq # -1

\* C37: a new story whose job is offered to the scheduler while fewer than
\* current_concurrent_limit of the tracked stories are still non-complete
\* is eventually admitted: completed stories do not keep an admission slot.
C37_NewStoryEventuallyAdmitted ==
  \A u \in Units :
    (/\ u \in sqs
     /\ ~IsActive(u.story)
     /\ Cardinality({ s \in Range(active_stories) : ~story_state[s].is_complete })
          < current_concurrent_limit)
      ~> IsActive(u.story)

=============================================================================
